---- MODULE Spec2Model ----
(***************************************************************************)
(* A model of the bridge-lesson text pipeline: generate_pbn.py (stages 1   *)
(* to 4) and generate_lesson.py (the lesson derivation).                   *)
(*                                                                         *)
(* Text is modelled as a sequence of one-character strings, so that every  *)
(* scan, split, strip and regular-expression match of the source is        *)
(* computed character by character as the source computes it.  The en     *)
(* dash (U+2013) is the one-element symbol "endash".                       *)
(***************************************************************************)
EXTENDS Integers, Sequences, FiniteSets, TLC

VARIABLES
    pc,           \* the step the run has reached
    s1_lines,     \* stage 1: the lines of the text file
    s1_i,         \* stage 1: the (1-based) index of the line the loop reads next
    s1_loop,      \* stage 1: deal_blocks, current_block and consecutive_blanks
    s1_rows,      \* stage 1: the rows written
    raw_auction,  \* expand_auction: its argument
    expanded,     \* expand_auction: its result
    reexpanded,   \* expand_auction: its result on its own result
    s2_row,       \* stage 3: the row read, [auction, notes]
    s3_extracted, \* stage 3: what extract_bid_notes returned for the row
    s3_row,       \* stage 3: the row written, [auction, bid_notes, notes]
    s3_runs,      \* stage 3: how many times it has run over the row
    ref_boards,   \* stage 4: the boards of the reference document, by number
    csv3,         \* stage 4: the rows read
    pbn_out,      \* stage 4: the text of the document written
    parsed,       \* parse_boards: what it returned for the document
    gsc_in,       \* the lesson commentary: the board read and its bids
    gsc_out,      \* the lesson commentary: what generate_south_commentary returned
    lesson_boards, \* main: the boards parse_boards returned
    rotate,       \* write_lesson_pbn: the rotate argument of the last call
    lesson_pbn    \* write_lesson_pbn: the text of the file the last call wrote

stage1Vars == <<s1_lines, s1_i, s1_loop, s1_rows>>
expandVars == <<raw_auction, expanded, reexpanded>>
stage3Vars == <<s2_row, s3_extracted, s3_row, s3_runs>>
mergeVars == <<ref_boards, csv3, pbn_out, parsed>>
lessonVars == <<gsc_in, gsc_out, lesson_boards, rotate, lesson_pbn>>
vars == <<pc, stage1Vars, expandVars, stage3Vars, mergeVars, lessonVars>>

(***************************************************************************)
(* Bounds of the model.                                                    *)
(***************************************************************************)
\* The largest number of ' - '-separated elements of a generated raw auction.
MaxElems == 3
\* The largest number of pieces of a generated annotated auction (stage 3).
MaxPieces == 5
\* The largest number of pieces of a generated deal-level note text.
MaxNotePieces == 3
\* Iterations the padding loop of expand_auction is followed for before it is
\* reported as not terminating.
PadFuel == 5

(***************************************************************************)
(* Python string primitives.                                               *)
(***************************************************************************)
EnDash == "endash"

Whitespace == {" ", "\t", "\n"}

UpperLetters == <<"A","B","C","D","E","F","G","H","I","J","K","L","M",
                  "N","O","P","Q","R","S","T","U","V","W","X","Y","Z">>
LowerLetters == <<"a","b","c","d","e","f","g","h","i","j","k","l","m",
                  "n","o","p","q","r","s","t","u","v","w","x","y","z">>
Digits == {"0","1","2","3","4","5","6","7","8","9"}

IndexIn(c, letters) ==
    IF \E k \in 1..Len(letters) : letters[k] = c
    THEN CHOOSE k \in 1..Len(letters) : letters[k] = c
    ELSE 0

\* str.lower() and str.upper(), one character
LowerChar(c) == LET k == IndexIn(c, UpperLetters) IN IF k = 0 THEN c ELSE LowerLetters[k]
UpperChar(c) == LET k == IndexIn(c, LowerLetters) IN IF k = 0 THEN c ELSE UpperLetters[k]
Lower(s) == [k \in 1..Len(s) |-> LowerChar(s[k])]
Upper(s) == [k \in 1..Len(s) |-> UpperChar(s[k])]

\* s[i:] and s[i:j] with 0-based Python indices given as 1-based positions
From(s, i) == SubSeq(s, i, Len(s))

\* s.startswith(p) at 1-based position i
StartsWithAt(s, i, p) ==
    /\ i + Len(p) - 1 <= Len(s)
    /\ \A k \in 1..Len(p) : s[i + k - 1] = p[k]
StartsWith(s, p) == StartsWithAt(s, 1, p)
EndsWith(s, p) == Len(p) <= Len(s) /\ StartsWithAt(s, Len(s) - Len(p) + 1, p)
Contains(s, p) == \E i \in 1..(Len(s) + 1) : StartsWithAt(s, i, p)

RECURSIVE LStrip(_)
LStrip(s) == IF s # <<>> /\ Head(s) \in Whitespace THEN LStrip(Tail(s)) ELSE s
RECURSIVE RStrip(_)
RStrip(s) ==
    IF s # <<>> /\ s[Len(s)] \in Whitespace THEN RStrip(SubSeq(s, 1, Len(s) - 1)) ELSE s
Strip(s) == LStrip(RStrip(s))

\* str.replace(old, new): non-overlapping occurrences, left to right
RECURSIVE Replace(_, _, _)
Replace(s, old, new) ==
    IF s = <<>> THEN <<>>
    ELSE IF StartsWith(s, old) THEN new \o Replace(From(s, Len(old) + 1), old, new)
    ELSE <<Head(s)>> \o Replace(Tail(s), old, new)

\* sep.join(parts)
RECURSIVE Join(_, _)
Join(parts, sep) ==
    IF parts = <<>> THEN <<>>
    ELSE IF Len(parts) = 1 THEN parts[1]
    ELSE parts[1] \o sep \o Join(Tail(parts), sep)

\* The text as a TLA+ string, for comparison with the literals of the source.
RECURSIVE Str(_)
Str(s) == IF s = <<>> THEN "" ELSE Head(s) \o Str(Tail(s))

(***************************************************************************)
(* generate_pbn.py: expand_auction                                         *)
(***************************************************************************)
Hyphen3 == <<" ", "-", " ">>
EnDash3 == <<" ", EnDash, " ">>
PassTok == <<"P","a","s","s">>
AllPass == <<"a","l","l"," ","p","a","s","s">>

\* raw_auction.replace(' - ', ' - ') with the en dash as the old separator
Normalized(raw) == Replace(raw, EnDash3, Hyphen3)

\* The split loop: elements, current, paren_depth and i are the loop's
\* variables; i is 1-based here.
RECURSIVE SplitLoop(_, _, _, _, _)
SplitLoop(normalized, i, paren_depth, current, elements) ==
    IF i > Len(normalized)
    THEN IF current # <<>> THEN Append(elements, current) ELSE elements
    ELSE LET ch == normalized[i] IN
         IF ch = "(" THEN
            SplitLoop(normalized, i + 1, paren_depth + 1, Append(current, ch), elements)
         ELSE IF ch = ")" THEN
            SplitLoop(normalized, i + 1, paren_depth - 1, Append(current, ch), elements)
         ELSE IF paren_depth = 0 /\ StartsWithAt(normalized, i, Hyphen3) THEN
            SplitLoop(normalized, i + 3, paren_depth, <<>>, Append(elements, current))
         ELSE
            SplitLoop(normalized, i + 1, paren_depth, Append(current, ch), elements)

SplitElements(raw) == SplitLoop(Normalized(raw), 1, 0, <<>>, <<>>)

\* elem.startswith('[') and ']' in elem
IsBracketed(elem) == StartsWith(elem, <<"[">>) /\ Contains(elem, <<"]">>)

\* elem.lower() == 'all pass'
IsAllPass(elem) == Lower(elem) = AllPass

\* "i > 0 and not prev_was_bracketed", i the 0-based index of enumerate
InsertPassRule_NoIndexTest(i, prev_was_bracketed) == ~prev_was_bracketed
InsertPassRule_IgnoreBracket(i, prev_was_bracketed) == i > 0
InsertPassRule(i, prev_was_bracketed) == i > 0 /\ ~prev_was_bracketed

\* The element loop.  Each emitted token is recorded with the (1-based) index
\* of the element that emitted it and whether it is a Pass the loop inserted
\* ahead of an own-side call: tok is what the code appends to output.
RECURSIVE EmitLoop(_, _, _, _)
EmitLoop(elements, k, prev_was_bracketed, output) ==
    IF k > Len(elements) THEN output
    ELSE LET elem == Strip(elements[k]) IN
         IF elem = <<>> THEN
            EmitLoop(elements, k + 1, prev_was_bracketed, output)
         ELSE IF IsAllPass(elem) THEN
            EmitLoop(elements, k + 1, FALSE,
                     output \o [j \in 1..3 |-> [tok |-> PassTok, src |-> k, kind |-> "allpass"]])
         ELSE IF IsBracketed(elem) THEN
            EmitLoop(elements, k + 1, TRUE,
                     Append(output,
                            [tok |-> Replace(Replace(elem, <<"[">>, <<>>), <<"]">>, <<>>),
                             src |-> k, kind |-> "opp"]))
         ELSE
            EmitLoop(elements, k + 1, FALSE,
                     (IF InsertPassRule(k - 1, prev_was_bracketed)
                      THEN Append(output, [tok |-> PassTok, src |-> k, kind |-> "inserted"])
                      ELSE output)
                     \o <<[tok |-> elem, src |-> k, kind |-> "own"]>>)

Emitted(raw) == EmitLoop(SplitElements(raw), 1, FALSE, <<>>)

\* "Normalize P to Pass"
NormalizeP(elem) ==
    IF elem = <<"P">> THEN PassTok
    ELSE IF StartsWith(elem, <<"P", " ">>) \/ StartsWith(elem, <<"P", "(">>)
         THEN PassTok \o From(elem, 2)
    ELSE elem

\* bid.split('(')[0]
RECURSIVE BeforeParen(_)
BeforeParen(bid) ==
    IF bid = <<>> \/ Head(bid) = "(" THEN <<>> ELSE <<Head(bid)>> \o BeforeParen(Tail(bid))

is_pass(bid) == Strip(BeforeParen(bid)) = PassTok

\* len(output) < 3 or not all(is_pass(x) for x in output[-3:])
NeedsPass_LastTwo(output) ==
    Len(output) < 3 \/ ~(\A k \in (Len(output) - 1)..Len(output) : is_pass(output[k]))
NeedsPass(output) ==
    Len(output) < 3 \/ ~(\A k \in (Len(output) - 2)..Len(output) : is_pass(output[k]))

\* The padding loop, followed for at most PadFuel iterations: appended counts
\* the Pass tokens added, terminated says the loop condition became false.
RECURSIVE PadLoop(_, _)
PadLoop(output, appended) ==
    IF ~NeedsPass(output) THEN [output |-> output, appended |-> appended, terminated |-> TRUE]
    ELSE IF appended >= PadFuel
         THEN [output |-> output, appended |-> appended, terminated |-> FALSE]
    ELSE PadLoop(Append(output, PassTok), appended + 1)

\* The token list before padding, and the run of the padding loop on it
Tokens(raw) == LET e == Emitted(raw) IN [k \in 1..Len(e) |-> NormalizeP(e[k].tok)]
Padded(raw) == PadLoop(Tokens(raw), 0)

expand_auction(raw) == Join(Padded(raw).output, <<" ">>)

(***************************************************************************)
(* Raw auctions the expansion is run on: every sequence of at most         *)
(* MaxElems elements of ElemVocab joined by either separator, and the      *)
(* auction of the documented scenario.                                     *)
(***************************************************************************)
E_1C == <<"1","C">>
E_OppP == <<"[","P","]">>
E_P == <<"P">>
E_Blank == <<>>
E_POpen == <<"P"," ","(","f">>
E_Close == <<"g",")">>
E_1DShows == <<"1","D","(","s","h","o","w","s"," ","4","+"," ",
               "d","i","a","m","o","n","d","s",")">>

ElemVocab == {E_1C, E_OppP, E_P, AllPass, E_Blank, E_POpen, E_Close}
Separators == {Hyphen3, EnDash3}

RECURSIVE RawOfLen(_)
RawOfLen(n) ==
    IF n = 1 THEN ElemVocab
    ELSE {r \o s \o e : r \in RawOfLen(n - 1), s \in Separators, e \in ElemVocab}

\* '1C - [P] - 1D(shows 4+ diamonds) - all pass'
ScenarioRaw == Join(<<E_1C, E_OppP, E_1DShows, AllPass>>, Hyphen3)

\* '1C (shows 4+ - or more C) - Pass'
SplitExample == <<"1","C"," ","(","s","h","o","w","s"," ","4","+"," ","-"," ","o","r"," ","m","o","r","e"," ","C",")"," ","-"," ","P","a","s","s">>

RawAuctions == UNION {RawOfLen(n) : n \in 1..MaxElems} \cup {ScenarioRaw, SplitExample}

(***************************************************************************)
(* Expansion, and expansion run again on its own output.                   *)
(***************************************************************************)
\* The value of a variable the run at hand does not use
NoRow == [none |-> TRUE]

\* The variables of the other parts of the pipeline, while a run does not
\* use them
IdleStage1 == s1_lines = <<>> /\ s1_i = 0 /\ s1_loop = NoRow /\ s1_rows = <<>>
IdleExpand == raw_auction = <<>> /\ expanded = <<>> /\ reexpanded = <<>>
IdleStage3 == s2_row = NoRow /\ s3_extracted = NoRow /\ s3_row = NoRow /\ s3_runs = 0
IdleMerge == ref_boards = NoRow /\ csv3 = <<>> /\ pbn_out = <<>> /\ parsed = NoRow
IdleWrite == lesson_boards = <<>> /\ rotate = "none" /\ lesson_pbn = <<>>
IdleLesson == gsc_in = NoRow /\ gsc_out = <<>> /\ IdleWrite

InitExpand ==
    /\ IdleStage1
    /\ pc = "raw"
    /\ raw_auction \in RawAuctions
    /\ expanded = <<>>
    /\ reexpanded = <<>>
    /\ IdleStage3 /\ IdleMerge /\ IdleLesson

ExpandAuction ==
    /\ pc = "raw"
    /\ expanded' = expand_auction(raw_auction)
    /\ pc' = "expanded"
    /\ UNCHANGED <<stage1Vars, raw_auction, reexpanded, stage3Vars, mergeVars, lessonVars>>

ReExpandAuction ==
    /\ pc = "expanded"
    /\ reexpanded' = expand_auction(expanded)
    /\ pc' = "reexpanded"
    /\ UNCHANGED <<stage1Vars, raw_auction, expanded, stage3Vars, mergeVars, lessonVars>>

NextExpand == ExpandAuction \/ ReExpandAuction

SpecExpand == InitExpand /\ [][NextExpand]_vars

(***************************************************************************)
(* Claims about expand_auction.                                            *)
(***************************************************************************)
Expanded == pc \in {"expanded", "reexpanded"}

\* C1 as stated: the scenario '1C - [P] - 1D(shows 4+ diamonds) - all pass'
\* expands to '1C Pass Pass 1D(shows 4+ diamonds) Pass Pass Pass'.
C1_ScenarioAsStated ==
    (Expanded /\ raw_auction = ScenarioRaw)
        => Str(expanded) = "1C Pass Pass 1D(shows 4+ diamonds) Pass Pass Pass"

\* C1 amended: the scenario expands to
\* '1C Pass 1D(shows 4+ diamonds) Pass Pass Pass': the bracketed [P] is the
\* one call between 1C and 1D, and no Pass is inserted before 1D.
C1_ScenarioExpansion ==
    (Expanded /\ raw_auction = ScenarioRaw)
        => Str(expanded) = "1C Pass 1D(shows 4+ diamonds) Pass Pass Pass"

C1_Witness == pc = "expanded" /\ raw_auction = ScenarioRaw

\* The last three tokens of a token list are all Pass (annotations ignored)
EndsWithThreePasses(output) ==
    /\ Len(output) >= 3
    /\ \A k \in (Len(output) - 2)..Len(output) : is_pass(output[k])

\* C2 as stated: the token list ends with exactly three consecutive Pass
\* tokens (the token before the last three, if any, is not a Pass), and the
\* padding loop terminates.
C2_ExactlyThreePasses ==
    Expanded =>
        LET run == Padded(raw_auction) IN
        /\ run.terminated
        /\ EndsWithThreePasses(run.output)
        /\ (Len(run.output) > 3 => ~is_pass(run.output[Len(run.output) - 3]))

\* C2 amended: the padding loop terminates after appending at most three
\* Pass tokens, the last three tokens of the result are all Pass (so the
\* list ends with at least three consecutive Pass tokens), and the returned
\* string is the space-joined token list.
C2_EndsWithThreePasses ==
    Expanded =>
        LET run == Padded(raw_auction) IN
        /\ run.terminated
        /\ run.appended <= 3
        /\ EndsWithThreePasses(run.output)
        /\ expanded = Join(run.output, <<" ">>)

\* The loop padded a list that did not end in three Pass tokens
C2_Witness ==
    /\ pc = "expanded"
    /\ Padded(raw_auction).appended = 3
    /\ Len(Padded(raw_auction).output) > 3

\* Element k of a split list, stripped, and what the element loop takes it for
ElemAt(elements, k) == Strip(elements[k])
IsBlankElem(elements, k) == ElemAt(elements, k) = <<>>
IsOwnSide(elements, k) ==
    /\ ~IsBlankElem(elements, k)
    /\ ~IsAllPass(ElemAt(elements, k))
    /\ ~IsBracketed(ElemAt(elements, k))

\* In the emitted tokens e, a Pass stands immediately before the own-side
\* call of element k
PassEmittedBefore(e, k) ==
    \E j \in 1..(Len(e) - 1) :
        /\ e[j].kind = "inserted" /\ e[j].tok = PassTok /\ e[j].src = k
        /\ e[j + 1].kind = "own" /\ e[j + 1].src = k

\* The nearest non-blank element before k exists and is bracketed
NearestNonBlankBracketed(elements, k) ==
    \E m \in 1..(k - 1) :
        /\ ~IsBlankElem(elements, m)
        /\ IsBracketed(ElemAt(elements, m))
        /\ \A n \in (m + 1)..(k - 1) : IsBlankElem(elements, n)

\* No two own-side calls are adjacent in the emitted tokens
NoAdjacentOwnSide(e) ==
    \A j \in 1..(Len(e) - 1) : ~(e[j].kind = "own" /\ e[j + 1].kind = "own")

\* C3 as stated: a Pass is emitted immediately before an own-side element
\* if and only if it is not the first element and the previous element was
\* not bracketed.
C3_PassIffPreviousElement ==
    Expanded =>
        LET elements == SplitElements(raw_auction)
            e == EmitLoop(elements, 1, FALSE, <<>>)
        IN  \A k \in 1..Len(elements) :
                IsOwnSide(elements, k) =>
                    (PassEmittedBefore(e, k)
                        <=> (k > 1 /\ ~IsBracketed(ElemAt(elements, k - 1))))

\* C3 amended: a Pass is emitted immediately before an own-side element if
\* and only if it is not the first element of the split list and the nearest
\* non-blank element before it, if there is one, was not bracketed (blank
\* elements are skipped and leave the bracket state as it was); and the
\* output never has two own-side calls adjacent to each other.
C3_PassIffBracketState ==
    Expanded =>
        LET elements == SplitElements(raw_auction)
            e == EmitLoop(elements, 1, FALSE, <<>>)
        IN  /\ \A k \in 1..Len(elements) :
                  IsOwnSide(elements, k) =>
                      (PassEmittedBefore(e, k)
                          <=> (k > 1 /\ ~NearestNonBlankBracketed(elements, k)))
            /\ NoAdjacentOwnSide(e)
            /\ expanded = Join(PadLoop([n \in 1..Len(e) |-> NormalizeP(e[n].tok)], 0).output,
                               <<" ">>)

\* Two own-side elements in a row, the second with its inserted Pass
C3_Witness ==
    /\ pc = "expanded"
    /\ LET elements == SplitElements(raw_auction)
           e == EmitLoop(elements, 1, FALSE, <<>>)
       IN  \E k \in 2..Len(elements) :
               /\ IsOwnSide(elements, k - 1)
               /\ IsOwnSide(elements, k)
               /\ PassEmittedBefore(e, k)

\* C4: expanding an already expanded auction returns it unchanged.
C4_ExpansionIdempotent ==
    pc = "reexpanded" => reexpanded = expanded

(***************************************************************************)
(* generate_pbn.py: extract_bid_notes                                      *)
(***************************************************************************)
DigitChars == <<"0","1","2","3","4","5","6","7","8","9">>

\* str(n) of a natural number
RECURSIVE Dec(_)
Dec(n) ==
    IF n < 10 THEN <<DigitChars[n + 1]>>
    ELSE Dec(n \div 10) \o <<DigitChars[(n % 10) + 1]>>

\* s[m..n] (1-based, inclusive), empty when n < m
Slice(s, m, n) == IF n < m THEN <<>> ELSE SubSeq(s, m, n)

\* The inner while loop that looks for the matching ')': the (1-based) value
\* of j when it stops.
RECURSIVE CloseScan(_, _, _)
CloseScan(auction, j, depth) ==
    IF j <= Len(auction) /\ depth > 0
    THEN CloseScan(auction, j + 1,
                   IF auction[j] = "(" THEN depth + 1
                   ELSE IF auction[j] = ")" THEN depth - 1
                   ELSE depth)
    ELSE j

\* note_text = auction[i+1:j-1], for the 1-based positions p of '(' and q of j
NoteText_KeepClose(auction, p, q) == Slice(auction, p + 1, q - 1)
NoteText(auction, p, q) == Slice(auction, p + 1, q - 2)

\* f' ={note_num}='
Marker_NoSpace(note_num) == <<"=">> \o Dec(note_num) \o <<"=">>
Marker(note_num) == <<" ", "=">> \o Dec(note_num) \o <<"=">>

\* The outer while loop: result and the list of notes when it ends
RECURSIVE ExtractLoop(_, _, _, _, _)
ExtractLoop(auction, p, result, notes, note_num) ==
    IF p > Len(auction) THEN [result |-> result, notes |-> notes]
    ELSE IF auction[p] = "(" THEN
        LET q == CloseScan(auction, p + 1, 1)
            n == note_num + 1
        IN  ExtractLoop(auction, q, RStrip(result) \o Marker(n),
                        Append(notes, Dec(n) \o <<":">> \o NoteText(auction, p, q)), n)
    ELSE ExtractLoop(auction, p + 1, Append(result, auction[p]), notes, note_num)

\* while '  ' in result: result = result.replace('  ', ' ')
RECURSIVE CollapseSpaces(_)
CollapseSpaces(s) ==
    IF Contains(s, <<" ", " ">>) THEN CollapseSpaces(Replace(s, <<" ", " ">>, <<" ">>)) ELSE s

extract_bid_notes(auction) ==
    LET r == ExtractLoop(auction, 1, <<>>, <<>>, 0) IN
    [cleaned |-> Strip(CollapseSpaces(r.result)), bid_notes |-> Join(r.notes, <<"|">>),
     notes |-> r.notes]

(***************************************************************************)
(* generate_pbn.py: add_suit_symbols                                       *)
(***************************************************************************)
Suits == {"C", "D", "H", "S"}
Ranks == {"K", "Q", "A", "J", "T"}
Keycard == <<"k","e","y","c","a","r","d">>
ForSp == <<"f","o","r"," ">>

\* \w of a regular expression, and \b before position i (1-based)
IsWordChar(c) ==
    \/ c \in Digits \/ c = "_"
    \/ IndexIn(c, UpperLetters) # 0 \/ IndexIn(c, LowerLetters) # 0
WordAt(s, i) == i >= 1 /\ i <= Len(s) /\ IsWordChar(s[i])
BoundaryAt(s, i) == WordAt(s, i - 1) # WordAt(s, i)
CharAt(s, i) == IF i >= 1 /\ i <= Len(s) THEN s[i] ELSE "none"

\* The length of the longest run of [\d+-] that starts at position i
RECURSIVE CountRun(_, _)
CountRun(s, i) ==
    IF i <= Len(s) /\ (s[i] \in Digits \/ s[i] \in {"+", "-"})
    THEN 1 + CountRun(s, i + 1) ELSE 0

\* The length of the match of rule's pattern at position i, 0 when there is
\* none.  The rules, in the order add_suit_symbols applies them:
\*   1  (\d[\d+-]*) ([CDHS])\b      2  ([KQAJT])([CDHS])\b
\*   3  (\d)([CDHS])\b              4  \b([CDHS]) (keycard)
\*   5  (for )([CDHS])\b
MatchLen(rule, s, i) ==
    IF rule = 1 THEN
        LET e == i + CountRun(s, i + 1) IN
        IF /\ CharAt(s, i) \in Digits
           /\ CharAt(s, e + 1) = " "
           /\ CharAt(s, e + 2) \in Suits
           /\ BoundaryAt(s, e + 3)
        THEN e + 2 - i + 1 ELSE 0
    ELSE IF rule = 2 THEN
        IF CharAt(s, i) \in Ranks /\ CharAt(s, i + 1) \in Suits /\ BoundaryAt(s, i + 2)
        THEN 2 ELSE 0
    ELSE IF rule = 3 THEN
        IF CharAt(s, i) \in Digits /\ CharAt(s, i + 1) \in Suits /\ BoundaryAt(s, i + 2)
        THEN 2 ELSE 0
    ELSE IF rule = 4 THEN
        IF /\ BoundaryAt(s, i)
           /\ CharAt(s, i) \in Suits
           /\ StartsWithAt(s, i + 1, <<" ">> \o Keycard)
        THEN 9 ELSE 0
    ELSE
        IF StartsWithAt(s, i, ForSp) /\ CharAt(s, i + 4) \in Suits /\ BoundaryAt(s, i + 5)
        THEN 5 ELSE 0

\* The replacement text of rule for the match of length n at position i
Replacement(rule, s, i, n) ==
    IF rule = 1 THEN Slice(s, i, i + n - 3) \o <<"\\", s[i + n - 1], "s">>
    ELSE IF rule \in {2, 3} THEN <<s[i], "\\", s[i + 1]>>
    ELSE IF rule = 4 THEN <<"\\", s[i], " ">> \o Keycard
    ELSE ForSp \o <<"\\", s[i + 4]>>

\* re.sub(pattern, replacement, text): leftmost matches, not overlapping
RECURSIVE ReSub(_, _, _)
ReSub(rule, s, i) ==
    IF i > Len(s) THEN <<>>
    ELSE LET n == MatchLen(rule, s, i) IN
         IF n > 0 THEN Replacement(rule, s, i, n) \o ReSub(rule, s, i + n)
         ELSE <<s[i]>> \o ReSub(rule, s, i + 1)

add_suit_symbols(text) ==
    ReSub(5, ReSub(4, ReSub(3, ReSub(2, ReSub(1, text, 1), 1), 1), 1), 1)

(***************************************************************************)
(* Rows stage 3 is run on: annotated auctions made of at most MaxPieces    *)
(* pieces of AnnotVocab, note texts made of at most MaxNotePieces pieces   *)
(* of NoteVocab, and the row of the documented scenario.                   *)
(***************************************************************************)
AnnotVocab == {<<"2","C">>, <<" ">>, <<"(">>, <<")">>, <<"x">>}
NoteVocab == {<<"4","+">>, <<" ">>, <<"S">>, <<"H">>, <<"Q">>, <<"1">>,
              <<" ">> \o Keycard, ForSp}

RECURSIVE TextsOf(_, _)
TextsOf(vocab, n) ==
    IF n = 0 THEN {<<>>}
    ELSE LET shorter == TextsOf(vocab, n - 1) IN
         shorter \cup {t \o v : t \in shorter, v \in vocab}

\* '1C Pass Pass 1D(shows 4+ diamonds) Pass Pass Pass'
ScenarioExpanded ==
    Join(<<E_1C, PassTok, PassTok, E_1DShows, PassTok, PassTok, PassTok>>, <<" ">>)

\* '2C (shows (at least) 4+ clubs)'
NestedExample ==
    <<"2","C"," ","(","s","h","o","w","s"," ","(","a","t"," ","l","e","a","s","t",")",
      " ","4","+"," ","c","l","u","b","s",")">>

Stage2Rows ==
    {[deal |-> <<"1">>, auction |-> a, notes |-> <<>>] :
        a \in TextsOf(AnnotVocab, MaxPieces) \cup {NestedExample}}
    \cup {[deal |-> <<"3">>, auction |-> ScenarioExpanded, notes |-> t] :
            t \in TextsOf(NoteVocab, MaxNotePieces)}

(***************************************************************************)
(* Stage 3 on one row, and stage 3 run again on the row it wrote.          *)
(***************************************************************************)
InitNotes ==
    /\ IdleStage1
    /\ pc = "stage2"
    /\ s2_row \in Stage2Rows
    /\ s3_extracted = NoRow /\ s3_row = NoRow /\ s3_runs = 0
    /\ IdleExpand /\ IdleMerge /\ IdleLesson

\* The body of stage3's loop over the rows
Stage3Row ==
    /\ pc \in {"stage2", "stage3"}
    /\ s3_runs < 2
    /\ LET row == IF s3_runs = 0 THEN s2_row
                  ELSE [deal |-> s3_row.deal, auction |-> s3_row.auction,
                        notes |-> s3_row.notes]
           ex == extract_bid_notes(row.auction)
       IN  /\ s2_row' = row
           /\ s3_extracted' = ex
           /\ s3_row' = [deal |-> row.deal,
                         auction |-> ex.cleaned,
                         bid_notes |-> add_suit_symbols(ex.bid_notes),
                         notes |-> add_suit_symbols(row.notes)]
    /\ s3_runs' = s3_runs + 1
    /\ pc' = "stage3"
    /\ UNCHANGED <<stage1Vars, expandVars, mergeVars, lessonVars>>

NextNotes == Stage3Row

SpecNotes == InitNotes /\ [][NextNotes]_vars

(***************************************************************************)
(* Claims about stage 3.                                                   *)
(***************************************************************************)
\* The nesting depth of the parentheses before each position of a
RECURSIVE DepthsFrom(_, _, _)
DepthsFrom(a, p, d) ==
    IF p > Len(a) THEN <<d>>
    ELSE <<d>> \o DepthsFrom(a, p + 1,
                             IF a[p] = "(" THEN d + 1 ELSE IF a[p] = ")" THEN d - 1 ELSE d)
Depths(a) == DepthsFrom(a, 1, 0)

Balanced(a) ==
    LET d == Depths(a) IN d[Len(a) + 1] = 0 /\ \A p \in 1..Len(a) : d[p] >= 0

\* The positions of the '(' that open the top-level groups, in order, and
\* the position of the ')' that closes the group opened at p
IsTopOpen(a, d, p) == a[p] = "(" /\ d[p] = 0
TopOpens(a) ==
    LET d == Depths(a)
        RECURSIVE Opens(_)
        Opens(p) == IF p > Len(a) THEN <<>>
                    ELSE (IF IsTopOpen(a, d, p) THEN <<p>> ELSE <<>>) \o Opens(p + 1)
    IN  Opens(1)
CloseOf(a, d, p) ==
    CHOOSE q \in (p + 1)..Len(a) :
        /\ a[q] = ")" /\ d[q] = 1
        /\ \A r \in (p + 1)..(q - 1) : ~(a[r] = ")" /\ d[r] = 1)

\* 'N:' and the interior of the N-th group, for every group, joined by '|'
ExpectedNotes(a) ==
    LET d == Depths(a)
        opens == TopOpens(a)
    IN  Join([n \in 1..Len(opens) |->
                 Dec(n) \o <<":">> \o Slice(a, opens[n] + 1, CloseOf(a, d, opens[n]) - 1)],
             <<"|">>)

\* The auction with every top-level group replaced by its marker =N=
WithMarkers(a) ==
    LET d == Depths(a)
        RECURSIVE Out(_, _)
        Out(p, n) ==
            IF p > Len(a) THEN <<>>
            ELSE IF IsTopOpen(a, d, p)
                 THEN <<"=">> \o Dec(n + 1) \o <<"=">> \o Out(p + 1, n + 1)
            ELSE IF d[p] >= 1 THEN Out(p + 1, n)
            ELSE <<a[p]>> \o Out(p + 1, n)
    IN  Out(1, 0)

NonBlank(c) == c \notin Whitespace
NonWS(s) == SelectSeq(s, NonBlank)

\* Every '=' that opens a marker starts the text or follows exactly one blank
MarkersSetOff(cleaned) ==
    \A m \in 1..Len(cleaned) :
        (cleaned[m] = "=" /\ Cardinality({i \in 1..(m - 1) : cleaned[i] = "="}) % 2 = 0) =>
            \/ m = 1
            \/ cleaned[m - 1] = " " /\ CharAt(cleaned, m - 2) \notin Whitespace

\* C6: for an auction with balanced parentheses and k top-level groups, the
\* cleaned auction is the auction with each top-level group, and the
\* whitespace before it, replaced by the markers =1= ... =k= in order, and
\* footnote N is 'N:' followed by the whole interior of the N-th group,
\* nested parentheses included.
C6_NotesPreserveNesting ==
    (s3_runs >= 1 /\ Balanced(s2_row.auction)) =>
        /\ s3_extracted.bid_notes = ExpectedNotes(s2_row.auction)
        /\ NonWS(s3_extracted.cleaned) = NonWS(WithMarkers(s2_row.auction))
        /\ MarkersSetOff(s3_extracted.cleaned)
        /\ ~Contains(s3_extracted.cleaned, <<"(">>)
        /\ (s2_row.auction = NestedExample =>
               /\ Str(s3_extracted.cleaned) = "2C =1="
               /\ Str(s3_extracted.bid_notes) = "1:shows (at least) 4+ clubs")

\* A group with a group nested in it and whitespace before it was extracted
C6_Witness ==
    /\ s3_runs = 1
    /\ Balanced(s2_row.auction)
    /\ TopOpens(s2_row.auction) # <<>>
    /\ CharAt(s2_row.auction, TopOpens(s2_row.auction)[1] - 1) = " "
    /\ \E q \in 1..Len(s2_row.auction) : Depths(s2_row.auction)[q] = 2

\* C7: add_suit_symbols applied to its own result changes nothing.  Stage 3
\* run over the row it wrote applies it to the notes column a second time.
C7_NoDoubleEscape ==
    s3_runs = 2 => s3_row.notes = s2_row.notes

\* C8 as stated: the scenario's expanded auction yields the cleaned auction
\* '1C Pass Pass 1D =1= Pass Pass Pass' and the footnote 1 with the escaped
\* text 'shows 4+\Ds diamonds'.
C8_ScenarioAsStated ==
    (s3_runs = 1 /\ s2_row.auction = ScenarioExpanded) =>
        /\ Str(s3_row.auction) = "1C Pass Pass 1D =1= Pass Pass Pass"
        /\ Str(s3_row.bid_notes) = "1:shows 4+\\Ds diamonds"

\* C8 amended: the cleaned auction is as stated and the single footnote 1
\* keeps its text 'shows 4+ diamonds' through suit-symbol escaping: rule (a)
\* needs a bare upper-case suit letter after the space, and 'diamonds' has none.
C8_ScenarioFootnote ==
    (s3_runs = 1 /\ s2_row.auction = ScenarioExpanded) =>
        /\ Str(s3_row.auction) = "1C Pass Pass 1D =1= Pass Pass Pass"
        /\ Str(s3_row.bid_notes) = "1:shows 4+ diamonds"
        /\ s3_row.bid_notes = s3_extracted.bid_notes

C8_Witness ==
    /\ pc = "stage3" /\ s3_runs = 1
    /\ s2_row.auction = ScenarioExpanded
    /\ s3_row.bid_notes # <<>>

(***************************************************************************)
(* generate_pbn.py: format_auction_lines and stage4                        *)
(***************************************************************************)
\* str.split(): the maximal runs of non-whitespace characters
RECURSIVE SplitWS(_, _, _)
SplitWS(s, p, current) ==
    IF p > Len(s) THEN (IF current # <<>> THEN <<current>> ELSE <<>>)
    ELSE IF s[p] \in Whitespace
         THEN (IF current # <<>> THEN <<current>> ELSE <<>>) \o SplitWS(s, p + 1, <<>>)
    ELSE SplitWS(s, p + 1, Append(current, s[p]))
WordsOf(s) == SplitWS(s, 1, <<>>)

\* str.split(ch): the pieces between the occurrences of the character ch
SplitChar(s, ch) ==
    LET at == {p \in 1..Len(s) : s[p] = ch}
        \* the position of the k-th occurrence; 0 and Len(s) + 1 bracket them
        Nth(k) == IF k = 0 THEN 0
                  ELSE IF k > Cardinality(at) THEN Len(s) + 1
                  ELSE CHOOSE p \in at : Cardinality({q \in at : q < p}) = k - 1
    IN  [k \in 1..(Cardinality(at) + 1) |-> Slice(s, Nth(k - 1) + 1, Nth(k) - 1)]

\* tokens[i+1].startswith('=') and tokens[i+1].endswith('=')
IsFlag(token) == StartsWith(token, <<"=">>) /\ EndsWith(token, <<"=">>)

\* "Group tokens into bids (bid + optional =N= flag)"
RECURSIVE GroupBids(_, _)
GroupBids(tokens, i) ==
    IF i > Len(tokens) THEN <<>>
    ELSE IF i + 1 <= Len(tokens) /\ IsFlag(tokens[i + 1])
         THEN <<tokens[i] \o <<" ">> \o tokens[i + 1]>> \o GroupBids(tokens, i + 2)
    ELSE <<tokens[i]>> \o GroupBids(tokens, i + 1)

\* "4 bids per line"
BidsPerLine == 4
RECURSIVE LinesOfBids(_, _)
LinesOfBids(bids_, j) ==
    IF j > Len(bids_) THEN <<>>
    ELSE <<Join(Slice(bids_, j, IF j + BidsPerLine - 1 <= Len(bids_)
                                THEN j + BidsPerLine - 1 ELSE Len(bids_)), <<" ">>)>>
         \o LinesOfBids(bids_, j + BidsPerLine)

\* The list "lines" of format_auction_lines, and the text it returns
AuctionLines(auction_str) == LinesOfBids(GroupBids(WordsOf(auction_str), 1), 1)
format_auction_lines(auction_str) == Join(AuctionLines(auction_str), <<"\n">>)

\* dict.get(key, default) of a function whose domain is a set of tag names
GetTag(board, key, default) == IF key \in DOMAIN board THEN board[key] ELSE default

\* f'[{name} "{value}"]\n'
TagLine(name, value) == <<"[">> \o name \o <<" ", "\"">> \o value \o <<"\"", "]", "\n">>

PbnHeader ==
    <<"%"," ","P","B","N"," ","2",".","1","\n">> \o <<"%"," ","E","X","P","O","R","T","\n">>
    \o <<"%","C","o","n","t","e","n","t","-","t","y","p","e",":"," ","t","e","x","t","/","x","-","p","b","n",";"," ","c","h","a","r","s","e","t","=","I","S","O","-","8","8","5","9","-","1","\n","\n">>

\* deal_id.split('-')[0]
BaseNum(deal_id) == SplitChar(deal_id, "-")[1]

\* What stage4 writes for one row whose board is in the reference document
BoardText(row, board) ==
    TagLine(<<"E","v","e","n","t">>, GetTag(board, "Event", <<>>))
    \o TagLine(<<"S","i","t","e">>, GetTag(board, "Site", <<>>))
    \o TagLine(<<"D","a","t","e">>, GetTag(board, "Date", <<>>))
    \o TagLine(<<"B","o","a","r","d">>, row.deal)
    \o TagLine(<<"W","e","s","t">>, <<>>) \o TagLine(<<"N","o","r","t","h">>, <<>>)
    \o TagLine(<<"E","a","s","t">>, <<>>) \o TagLine(<<"S","o","u","t","h">>, <<>>)
    \o TagLine(<<"D","e","a","l","e","r">>, GetTag(board, "Dealer", <<"N">>))
    \o TagLine(<<"V","u","l","n","e","r","a","b","l","e">>, GetTag(board, "Vulnerable", <<"N","o","n","e">>))
    \o TagLine(<<"D","e","a","l">>, GetTag(board, "Deal", <<>>))
    \o TagLine(<<"S","c","o","r","i","n","g">>, <<>>) \o TagLine(<<"D","e","c","l","a","r","e","r">>, <<>>)
    \o TagLine(<<"C","o","n","t","r","a","c","t">>, <<>>) \o TagLine(<<"R","e","s","u","l","t">>, <<>>)
    \o TagLine(<<"A","u","c","t","i","o","n">>, GetTag(board, "Dealer", <<"N">>))
    \o format_auction_lines(row.auction) \o <<"\n">>
    \o (IF row.bid_notes # <<>>
        THEN LET entries == SplitChar(row.bid_notes, "|") IN
             Join([k \in 1..Len(entries) |-> TagLine(<<"N","o","t","e">>, entries[k])], <<>>)
        ELSE <<>>)
    \o (IF row.notes # <<>> THEN <<"{", " ">> \o row.notes \o <<" ", "}", "\n">> ELSE <<>>)
    \o <<"\n">>

\* The loop of stage4 over the rows: the text written after the header.
\* boards maps the board numbers of the reference document to their tags; a
\* row whose base number it lacks is skipped.
RECURSIVE WriteRows(_, _, _)
WriteRows(rows, boards_, k) ==
    IF k > Len(rows) THEN <<>>
    ELSE LET base_num == BaseNum(rows[k].deal) IN
         (IF base_num \in DOMAIN boards_ /\ DOMAIN boards_[base_num] # {}
          THEN BoardText(rows[k], boards_[base_num])
          ELSE <<>>)
         \o WriteRows(rows, boards_, k + 1)

stage4(rows, boards_) == PbnHeader \o WriteRows(rows, boards_, 1)

(***************************************************************************)
(* generate_lesson.py: parse_boards                                        *)
(***************************************************************************)
\* The length of the longest run of characters of the class from position p
RECURSIVE RunLen(_, _, _)
RunLen(s, p, class) ==
    IF p <= Len(s) /\ s[p] \in class THEN 1 + RunLen(s, p + 1, class) ELSE 0

\* The characters \w matches
WordChars ==
    Digits \cup {"_"} \cup {UpperLetters[k] : k \in 1..26} \cup {LowerLetters[k] : k \in 1..26}

\* re.match(r'\[(\w+)\s+"(.*)"\]', stripped): [matched, tag, value].  \w+ and
\* \s+ take their whole runs, and the greedy (.*) ends at the last '"]'.
TagMatch(stripped) ==
    LET w == RunLen(stripped, 2, WordChars)
        sp == RunLen(stripped, 2 + w, Whitespace)
        quote == 2 + w + sp
        ends == {q \in (quote + 1)..(Len(stripped) - 1) :
                    stripped[q] = "\"" /\ stripped[q + 1] = "]"}
    IN  IF /\ CharAt(stripped, 1) = "["
           /\ w >= 1 /\ sp >= 1
           /\ CharAt(stripped, quote) = "\""
           /\ ends # {}
        THEN LET last == CHOOSE q \in ends : \A r \in ends : r <= q IN
             [matched |-> TRUE,
              tag |-> Slice(stripped, 2, 1 + w),
              value |-> Slice(stripped, quote + 1, last - 1)]
        ELSE [matched |-> FALSE, tag |-> <<>>, value |-> <<>>]

\* int(digits)
RECURSIVE ToNat(_)
ToNat(digits) ==
    IF digits = <<>> THEN 0
    ELSE 10 * ToNat(SubSeq(digits, 1, Len(digits) - 1))
         + (IndexIn(digits[Len(digits)], DigitChars) - 1)

\* re.match(r'(\d+):(.+)', value): [matched, num, text]
NoteMatch(value) ==
    LET d == RunLen(value, 1, Digits) IN
    IF d >= 1 /\ CharAt(value, d + 1) = ":" /\ Len(value) >= d + 2
    THEN [matched |-> TRUE, num |-> ToNat(Slice(value, 1, d)),
          text |-> Slice(value, d + 2, Len(value))]
    ELSE [matched |-> FALSE, num |-> 0, text |-> <<>>]

\* The board dict a new Event tag creates.  notes, a dict keyed by integers,
\* is the set of its <<key, text>> pairs.
NewBoard ==
    [meta_tags |-> <<>>, auction_dealer |-> <<"N">>, auction_lines |-> <<>>,
     notes |-> {}, note_lines |-> <<>>, commentary |-> <<>>]

\* current['notes'][key] = text
SetNote(notes, key, text) == {nt \in notes : nt[1] # key} \cup {<<key, text>>}

\* The state of the loop of parse_boards before its first line.  current is
\* None while has_current is FALSE; crashed records the TypeError of a tag
\* line that subscripts current while it is None.
ParseStart ==
    [boards |-> <<>>, current |-> NewBoard, has_current |-> FALSE,
     in_auction |-> FALSE, in_commentary |-> FALSE, commentary_text |-> <<>>,
     crashed |-> FALSE]

\* "if current: ... boards.append(current)", at an Event tag and at the end
Flush(st) ==
    IF st.has_current
    THEN [st EXCEPT
            !.boards = Append(@, IF st.commentary_text # <<>>
                                 THEN [st.current EXCEPT !.commentary = Strip(st.commentary_text)]
                                 ELSE st.current),
            !.commentary_text = <<>>]
    ELSE st

\* The body of the loop for a line that matched the tag pattern
ParseTag(st, stripped, tag, value) ==
    LET s1 == IF tag = <<"E","v","e","n","t">>
              THEN [Flush(st) EXCEPT !.current = NewBoard, !.has_current = TRUE,
                                     !.in_auction = FALSE, !.in_commentary = FALSE]
              ELSE st
    IN  IF ~s1.has_current THEN [s1 EXCEPT !.crashed = TRUE]
        ELSE IF tag = <<"A","u","c","t","i","o","n">> THEN
            [s1 EXCEPT !.current.auction_dealer = value, !.in_auction = TRUE]
        ELSE IF tag = <<"N","o","t","e">> THEN
            LET nm == NoteMatch(value) IN
            [s1 EXCEPT !.in_auction = FALSE,
                       !.current.note_lines = Append(@, stripped),
                       !.current.notes = IF nm.matched THEN SetNote(@, nm.num, nm.text) ELSE @]
        ELSE [s1 EXCEPT !.current.meta_tags = Append(@, <<tag, value>>)]

\* The body of the loop for one line
ParseLine(st, line) ==
    LET stripped == Strip(line)
        tm == TagMatch(stripped)
    IN  IF StartsWith(stripped, <<"%">>) THEN st
        ELSE IF tm.matched THEN ParseTag(st, stripped, tm.tag, tm.value)
        ELSE IF StartsWith(stripped, <<"{">>) THEN
            [st EXCEPT !.in_auction = FALSE,
                       !.in_commentary = ~Contains(Tail(stripped), <<"}">>),
                       !.commentary_text = @ \o stripped \o <<"\n">>]
        ELSE IF st.in_commentary THEN
            [st EXCEPT !.commentary_text = @ \o stripped \o <<"\n">>,
                       !.in_commentary = ~Contains(stripped, <<"}">>)]
        ELSE IF st.in_auction /\ stripped # <<>> THEN
            [st EXCEPT !.current.auction_lines = Append(@, stripped)]
        ELSE st

RECURSIVE ParseLines(_, _, _)
ParseLines(st, lines, k) ==
    IF k > Len(lines) \/ st.crashed THEN st
    ELSE ParseLines(ParseLine(st, lines[k]), lines, k + 1)

\* parse_boards of the content of a file: the boards returned, and whether
\* the call raised instead
parse_boards(content) ==
    LET st == ParseLines(ParseStart, SplitChar(content, "\n"), 1) IN
    [boards |-> IF st.crashed THEN <<>> ELSE Flush(st).boards, crashed |-> st.crashed]

(***************************************************************************)
(* Stage 3, stage 4 and parse_boards in a row: a stage-2 row is noted,     *)
(* merged with the reference document into a tagged document, and the      *)
(* document is read back.                                                  *)
(***************************************************************************)
\* The largest number of calls before the closing passes of a generated auction
MaxCalls == 2

CallVocab ==
    {<<"1","C">>, <<"1","C","(","a",")">>, <<"1","C"," ","(","a","|","b",")">>, <<"P","a","s","s"," ","(",")">>, <<"1","D"," ","(","a"," ","(","b",")",")">>}

RECURSIVE CallSeqs(_)
CallSeqs(n) ==
    IF n = 0 THEN {<<>>}
    ELSE LET shorter == CallSeqs(n - 1) IN
         shorter \cup {Append(cs, c) : cs \in shorter, c \in CallVocab}

\* Expanded auctions: the calls and the three closing passes
MergeAuctions ==
    {Join(cs \o <<PassTok, PassTok, PassTok>>, <<" ">>) : cs \in CallSeqs(MaxCalls)}

\* A reference document with board 1 alone, whose Dealer tag is dealer
\* (absent when dealer is empty)
RefDoc(dealer) ==
    LET tags == [t \in {"Event", "Site", "Date", "Vulnerable", "Deal"} |->
                    CASE t = "Event" -> <<"E","v">>
                      [] t = "Deal" -> <<"N",":","A","K",".","Q",".","J",".","T">>
                      [] t = "Vulnerable" -> <<"N","S">>
                      [] OTHER -> <<>>]
    IN  [b \in {<<"1">>} |->
            IF dealer = <<>> THEN tags
            ELSE [t \in DOMAIN tags \cup {"Dealer"} |->
                     IF t = "Dealer" THEN dealer ELSE tags[t]]]

\* The row of an alternate auction, written after the row at hand
AltRow ==
    [deal |-> <<"1","-","1">>, auction |-> <<"1","C"," ","P","a","s","s"," ","P","a","s","s"," ","P","a","s","s">>, bid_notes |-> <<>>,
     notes |-> <<"A","l","t","e","r","n","a","t","i","v","e">>]

InitRoundTrip ==
    /\ IdleStage1
    /\ pc = "stage2"
    /\ s2_row \in {[deal |-> d, auction |-> a, notes |-> n] :
                      d \in {<<"1">>, <<"1","-","2">>, <<"7">>}, a \in MergeAuctions, n \in {<<>>, <<"4"," ","S"," ","f","i","t">>}}
    /\ s3_extracted = NoRow /\ s3_row = NoRow /\ s3_runs = 0
    /\ ref_boards \in {RefDoc(d) : d \in {<<>>, <<"N">>, <<"W">>}}
    /\ csv3 = <<>> /\ pbn_out = <<>> /\ parsed = NoRow
    /\ IdleExpand /\ IdleLesson

\* stage4 over the noted row, alone or followed by an alternate's row
Stage4 ==
    /\ pc = "stage3"
    /\ \E rest \in {<<>>, <<AltRow>>} :
          /\ csv3' = <<s3_row>> \o rest
          /\ pbn_out' = stage4(csv3', ref_boards)
    /\ pc' = "stage4"
    /\ UNCHANGED <<stage1Vars, expandVars, stage3Vars, ref_boards, parsed, lessonVars>>

\* parse_boards over the document stage 4 wrote
ParseBoards ==
    /\ pc = "stage4"
    /\ parsed' = parse_boards(pbn_out)
    /\ pc' = "parsed"
    /\ UNCHANGED <<stage1Vars, expandVars, stage3Vars, ref_boards, csv3, pbn_out, lessonVars>>

NextRoundTrip == Stage3Row \/ Stage4 \/ ParseBoards

SpecRoundTrip == InitRoundTrip /\ [][NextRoundTrip]_vars

(***************************************************************************)
(* Claims about the round trip.                                            *)
(***************************************************************************)
\* The rows of csv3 that stage 4 writes as boards
IsWritten(row) == BaseNum(row.deal) \in DOMAIN ref_boards
WrittenRows == SelectSeq(csv3, IsWritten)

\* The (ordinal, text) footnote pairs of a stage-3 record: entry N of the
\* footnote list is 'N:' and the text
EntryPair(entry, n) == <<n, Slice(entry, Len(Dec(n)) + 2, Len(entry))>>
FootnotePairs(row) ==
    IF row = s3_row
    THEN {EntryPair(add_suit_symbols(s3_extracted.notes[n]), n) :
             n \in 1..Len(s3_extracted.notes)}
    ELSE {}

\* C5: every board stage 4 wrote is read back with the reference Dealer as
\* its auction dealer, the lines of format_auction_lines as its auction
\* lines and exactly the record's footnote pairs as its footnote lookup.
C5_RoundTrip ==
    pc = "parsed" =>
        /\ ~parsed.crashed
        /\ Len(parsed.boards) = Len(WrittenRows)
        /\ \A k \in 1..Len(WrittenRows) :
              LET row == WrittenRows[k]
                  ref == ref_boards[BaseNum(row.deal)]
                  board == parsed.boards[k]
              IN  /\ "Dealer" \in DOMAIN ref => board.auction_dealer = ref["Dealer"]
                  /\ board.auction_lines = AuctionLines(row.auction)
                  /\ board.notes = FootnotePairs(row)

\* The parts of the round trip that hold of every board: the dealer, the
\* auction lines, the Board tag and the raw footnote lines
RoundTripDealerAndLines ==
    pc = "parsed" =>
        /\ ~parsed.crashed
        /\ Len(parsed.boards) = Len(WrittenRows)
        /\ \A k \in 1..Len(WrittenRows) :
              LET row == WrittenRows[k]
                  ref == ref_boards[BaseNum(row.deal)]
                  board == parsed.boards[k]
              IN  /\ board.auction_dealer = GetTag(ref, "Dealer", <<"N">>)
                  /\ board.auction_lines = AuctionLines(row.auction)
                  /\ Len(board.note_lines) =
                        (IF row.bid_notes = <<>> THEN 0
                         ELSE Len(SplitChar(row.bid_notes, "|")))

(***************************************************************************)
(* generate_lesson.py: the commentary of a lesson board                    *)
(***************************************************************************)
\* s.rstrip(chars) and s.strip(chars)
RECURSIVE RStripOf(_, _)
RStripOf(s, chars) ==
    IF s # <<>> /\ s[Len(s)] \in chars THEN RStripOf(SubSeq(s, 1, Len(s) - 1), chars) ELSE s
RECURSIVE LStripOf(_, _)
LStripOf(s, chars) == IF s # <<>> /\ Head(s) \in chars THEN LStripOf(Tail(s), chars) ELSE s
StripOf(s, chars) == LStripOf(RStripOf(s, chars), chars)

SuitLetters == {"C", "D", "H", "S"}
UpperPass == <<"P","A","S","S">>

\* re.match(r'^(\d)(C|D|H|S)$', bid); '$' also matches before a final newline
IsSuitBid(bid) ==
    /\ Len(bid) \in {2, 3}
    /\ bid[1] \in Digits
    /\ bid[2] \in SuitLetters
    /\ Len(bid) = 3 => bid[3] = "\n"

format_bid_display(bid_) ==
    LET bid == RStripOf(bid_, {"?"}) IN
    IF Upper(bid) \in {UpperPass, <<"P">>} THEN <<"p","a","s","s">>
    ELSE IF IsSuitBid(bid) THEN <<bid[1], "\\", bid[2]>>
    ELSE bid

\* re.match(r'^\d(C|D|H|S|NT)$', t)
IsLevelBid(t) ==
    \/ IsSuitBid(t)
    \/ /\ Len(t) \in {3, 4}
       /\ t[1] \in Digits /\ t[2] = "N" /\ t[3] = "T"
       /\ Len(t) = 4 => t[4] = "\n"

is_valid_bid_token(token) ==
    LET t == RStripOf(token, {"?"}) IN
    \/ Upper(t) \in {UpperPass, <<"P">>, <<"X">>, <<"X","X">>}
    \/ IsLevelBid(t)

\* re.match(r'^=\d+=$', token)
IsNoteToken(token) ==
    LET d == RunLen(token, 2, Digits) IN
    /\ CharAt(token, 1) = "="
    /\ d >= 1
    /\ CharAt(token, d + 2) = "="
    /\ \/ Len(token) = d + 2
       \/ Len(token) = d + 3 /\ token[d + 3] = "\n"

seats == <<"N", "E", "S", "W">>

\* note_num = None
NoneNum == -1

\* seats[(dealer_idx + bid_idx) % 4]
SeatOf_NoWalk(dealer_idx, bid_idx) == seats[dealer_idx + 1]
SeatOf(dealer_idx, bid_idx) == seats[((dealer_idx + bid_idx) % 4) + 1]

\* The while loop of parse_auction_bids; i is 1-based here.
RECURSIVE ParseBidsLoop(_, _, _, _, _)
ParseBidsLoop(tokens, dealer_idx, i, bid_idx, bids) ==
    IF i > Len(tokens) THEN bids
    ELSE LET token == tokens[i] IN
         IF Lower(token) = <<"o","r">> THEN bids
         ELSE IF IsNoteToken(token) THEN
            ParseBidsLoop(tokens, dealer_idx, i + 1, bid_idx, bids)
         ELSE IF ~is_valid_bid_token(token) THEN bids
         ELSE LET stripped == RStripOf(token, {"?"})
                  clean == IF Upper(stripped) = <<"P">> THEN <<"P","a","s","s">> ELSE stripped
                  noted == i + 1 <= Len(tokens) /\ IsNoteToken(tokens[i + 1])
                  note_num == IF noted THEN ToNat(StripOf(tokens[i + 1], {"="})) ELSE NoneNum
                  seat == SeatOf(dealer_idx, bid_idx)
              IN  ParseBidsLoop(tokens, dealer_idx, IF noted THEN i + 2 ELSE i + 1,
                                bid_idx + 1,
                                Append(bids, [seat |-> seat, bid |-> clean, note_num |-> note_num]))

\* parse_auction_bids(auction_lines, dealer): the bids returned, and whether
\* seats.index(dealer) raised instead
parse_auction_bids(auction_lines, dealer) ==
    LET known == Len(dealer) = 1 /\ IndexIn(dealer[1], seats) # 0 IN
    [raised |-> ~known,
     bids |-> IF known
              THEN ParseBidsLoop(WordsOf(Join(auction_lines, <<" ">>)),
                                 IndexIn(dealer[1], seats) - 1, 1, 0, <<>>)
              ELSE <<>>]

RECURSIVE trim_trailing_passes(_)
trim_trailing_passes(bids) ==
    IF /\ bids # <<>>
       /\ Upper(bids[Len(bids)].bid) = UpperPass
       /\ bids[Len(bids)].note_num = NoneNum
    THEN trim_trailing_passes(SubSeq(bids, 1, Len(bids) - 1))
    ELSE bids

format_meaning(meaning) ==
    IF meaning = <<>> THEN <<>>
    ELSE IF meaning = <<"w","a","i","t","i","n","g">> THEN <<" ","w","a","i","t","i","n","g">>
    ELSE IF meaning \in {<<"c","u","e">>, <<"c","u","e"," ","b","i","d">>} THEN <<" ","s","h","o","w","i","n","g"," ","a"," ","c","o","n","t","r","o","l">>
    ELSE IF StartsWith(meaning, <<"t","o"," ","p","l","a","y">>) THEN <<" ">> \o meaning
    ELSE IF EndsWith(meaning, <<"?">>) THEN <<" ","a","s","k","i","n","g"," ">> \o meaning
    ELSE IF meaning \in {<<"s","e","t","s"," ","t","r","u","m","p">>, <<"s","e","t"," ","t","r","u","m","p">>} THEN <<","," ","s","e","t","t","i","n","g"," ","t","r","u","m","p">>
    ELSE IF meaning \in {<<"s","e","t","s"," ","s","u","i","t">>, <<"s","e","t"," ","s","u","i","t">>} THEN <<","," ","s","e","t","t","i","n","g"," ","t","h","e"," ","s","u","i","t">>
    ELSE IF meaning = <<"s","t","a","r","t"," ","c","u","e","b","i","d","d","i","n","g">> THEN <<","," ","s","t","a","r","t","i","n","g"," ","c","u","e","b","i","d","d","i","n","g">>
    ELSE IF meaning = <<"f","o","r","c","e","d">> THEN <<","," ","f","o","r","c","e","d">>
    ELSE IF meaning = <<"r","e","l","a","y">> THEN <<","," ","a"," ","r","e","l","a","y">>
    ELSE IF Contains(meaning, <<"k","e","y","c","a","r","d">>) /\ ~Contains(meaning, <<"k","e","y","c","a","r","d","s">>)
         THEN <<" ","a","s","k","i","n","g"," ">> \o meaning
    ELSE IF StartsWith(meaning, <<"a","s","k">>) THEN <<","," ","a","s","k","i","n","g">> \o From(meaning, 4)
    ELSE <<" ","s","h","o","w","i","n","g"," ">> \o meaning

\* notes.get(note_num, '') if note_num else ''
NotesGet(notes, note_num) ==
    IF note_num # NoneNum /\ note_num # 0 /\ \E nt \in notes : nt[1] = note_num
    THEN (CHOOSE nt \in notes : nt[1] = note_num)[2]
    ELSE <<>>

\* The lines the 'N' branch of the loop appends
NorthLines(bid, display, meaning) ==
    <<(IF Upper(bid) = UpperPass THEN <<"N","o","r","t","h"," ","p","a","s","s","e","s">>
       ELSE IF bid = <<"X">> THEN <<"N","o","r","t","h"," ","d","o","u","b","l","e","s">>
       ELSE IF bid = <<"X","X">> THEN <<"N","o","r","t","h"," ","r","e","d","o","u","b","l","e","s">>
       ELSE <<"N","o","r","t","h"," ","b","i","d","s"," ">> \o display)
      \o format_meaning(meaning) \o <<".">>>>

\* The lines the 'S' branch of the loop appends
SouthLines_NoBlank(bid, display, meaning) ==
    <<<<"W","h","a","t"," ","w","i","l","l"," ","y","o","u"," ","b","i","d"," ","n","o","w","?"," ","[","B","I","D"," ">> \o display \o <<"]">>,
      (IF Upper(bid) = UpperPass THEN <<"Y","o","u"," ","p","a","s","s">>
       ELSE IF bid = <<"X">> THEN <<"Y","o","u"," ","d","o","u","b","l","e">>
       ELSE IF bid = <<"X","X">> THEN <<"Y","o","u"," ","r","e","d","o","u","b","l","e">>
       ELSE <<"Y","o","u"," ","b","i","d"," ">> \o display)
      \o format_meaning(meaning) \o <<".">>>>
SouthLines(bid, display, meaning) ==
    <<<<"W","h","a","t"," ","w","i","l","l"," ","y","o","u"," ","b","i","d"," ","n","o","w","?"," ","[","B","I","D"," ">> \o display \o <<"]">>,
      (IF Upper(bid) = UpperPass THEN <<"Y","o","u"," ","p","a","s","s">>
       ELSE IF bid = <<"X">> THEN <<"Y","o","u"," ","d","o","u","b","l","e">>
       ELSE IF bid = <<"X","X">> THEN <<"Y","o","u"," ","r","e","d","o","u","b","l","e">>
       ELSE <<"Y","o","u"," ","b","i","d"," ">> \o display)
      \o format_meaning(meaning) \o <<".">>,
      <<>>>>

\* The lines the 'E'/'W' branch of the loop appends
OppLines_NarratePass(seat, bid, display) ==
    LET name == IF seat = "E" THEN <<"E","a","s","t">> ELSE <<"W","e","s","t">> IN
    IF Upper(bid) # UpperPass THEN
        IF bid = <<"X">> THEN <<name \o <<" ","d","o","u","b","l","e","s",".">>>>
        ELSE IF bid = <<"X","X">> THEN <<name \o <<" ","r","e","d","o","u","b","l","e","s",".">>>>
        ELSE <<name \o <<" ","b","i","d","s"," ">> \o display \o <<".">>>>
    ELSE <<name \o <<" ","p","a","s","s","e","s",".">>>>
OppLines(seat, bid, display) ==
    LET name == IF seat = "E" THEN <<"E","a","s","t">> ELSE <<"W","e","s","t">> IN
    IF Upper(bid) # UpperPass THEN
        IF bid = <<"X">> THEN <<name \o <<" ","d","o","u","b","l","e","s",".">>>>
        ELSE IF bid = <<"X","X">> THEN <<name \o <<" ","r","e","d","o","u","b","l","e","s",".">>>>
        ELSE <<name \o <<" ","b","i","d","s"," ">> \o display \o <<".">>>>
    ELSE <<>>

\* The lines one iteration of the loop appends
LinesOf(triple, notes) ==
    LET meaning == NotesGet(notes, triple.note_num)
        display == format_bid_display(triple.bid)
    IN  IF triple.seat = "N" THEN NorthLines(triple.bid, display, meaning)
        ELSE IF triple.seat = "S" THEN SouthLines(triple.bid, display, meaning)
        ELSE IF triple.seat \in {"E", "W"} THEN OppLines(triple.seat, triple.bid, display)
        ELSE <<>>

\* The loop over bids: every line of lines, with the index of the triple
\* whose iteration appended it (src, which the program does not keep).
RECURSIVE CommentaryLoop(_, _, _, _)
CommentaryLoop(bids, notes, k, lines) ==
    IF k > Len(bids) THEN lines
    ELSE LET new == LinesOf(bids[k], notes) IN
         CommentaryLoop(bids, notes, k + 1,
                        lines \o [j \in 1..Len(new) |-> [text |-> new[j], src |-> k]])

\* re.sub(r'^\{', '', text), re.sub(r'\}\s*$', '', text), text.strip()
Unwrapped(existing_commentary) ==
    LET opened == IF StartsWith(existing_commentary, <<"{">>)
                  THEN Tail(existing_commentary) ELSE existing_commentary
        \* the greedy \s* takes the whole run of whitespace before the end
        bare == RStrip(opened)
        closed == IF bare # <<>> /\ bare[Len(bare)] = "}"
                  THEN SubSeq(bare, 1, Len(bare) - 1)
                  ELSE opened
    IN  Strip(closed)

\* The commentary block built from lines
CommentaryBlock(lines, board_num, existing_commentary) ==
    LET body == Strip(Join(lines, <<"\n">>))
        text == Unwrapped(existing_commentary)
    IN  <<"{","P","r","e","c","i","s","i","o","n"," ","1","C"," ">> \o board_num \o <<"}","\n">>
        \o <<"{","[","s","h","o","w"," ","S","]","\n","\n">>
        \o body
        \o <<"\n","\n","[","s","h","o","w"," ","N","S","]","\n","\n">>
        \o (IF existing_commentary # <<>> /\ text # <<>> THEN text \o <<"\n","\n">> ELSE <<>>)
        \o <<"}">>

generate_south_commentary(bids, notes, board_num, existing_commentary) ==
    LET lines == CommentaryLoop(bids, notes, 1, <<>>) IN
    CommentaryBlock([j \in 1..Len(lines) |-> lines[j].text], board_num, existing_commentary)

(***************************************************************************)
(* The commentary step of write_lesson_pbn: the bids of a board are parsed, *)
(* their closing passes trimmed and the commentary generated.               *)
(***************************************************************************)
\* The largest number of calls of a generated lesson auction
MaxLessonCalls == 3

\* Calls as they stand on an auction line, and text that ends the parse
LessonCalls ==
    {<<"1","D"," ","=","1","=">>, <<"P","a","s","s">>, <<"P","?">>, <<"X">>, <<"X"," ","=","1","=">>, <<"X","X">>, <<"2","N","T"," ","=","2","=">>, <<"r","e","l","a","y">>}

RECURSIVE LessonAuctions(_)
LessonAuctions(n) ==
    IF n = 0 THEN {<<>>}
    ELSE LET shorter == LessonAuctions(n - 1) IN
         shorter \cup {Append(ls, c) : ls \in shorter, c \in LessonCalls}

\* The footnote lookup and the commentary of the boards read
LessonNotes ==
    {[notes |-> {}, commentary |-> <<>>],
     [notes |-> {<<1, <<"w","a","i","t","i","n","g">>>>, <<2, <<"t","o"," ","p","l","a","y">>>>}, commentary |-> <<"{","L","e","a","d"," ","t","h","e"," ","a","c","e",".","}">>]}

InitCommentary ==
    /\ IdleStage1
    /\ pc = "board"
    /\ gsc_in \in {[auction_lines |-> ls, dealer |-> <<d>>, notes |-> c.notes,
                    board_num |-> <<"1">>, commentary |-> c.commentary, bids |-> <<>>] :
                      ls \in LessonAuctions(MaxLessonCalls),
                      d \in {"N", "E", "S", "W"}, c \in LessonNotes}
    /\ gsc_out = <<>>
    /\ IdleExpand /\ IdleStage3 /\ IdleMerge /\ IdleWrite

\* bids = parse_auction_bids(board['auction_lines'], dealer)
ParseAuctionBids ==
    /\ pc = "board"
    /\ LET r == parse_auction_bids(gsc_in.auction_lines, gsc_in.dealer) IN
       IF r.raised
       THEN pc' = "raised" /\ UNCHANGED gsc_in
       ELSE pc' = "bids" /\ gsc_in' = [gsc_in EXCEPT !.bids = r.bids]
    /\ UNCHANGED <<stage1Vars, expandVars, stage3Vars, mergeVars, gsc_out, lesson_boards, rotate, lesson_pbn>>

\* bids = trim_trailing_passes(bids)
TrimTrailingPasses ==
    /\ pc = "bids"
    /\ gsc_in' = [gsc_in EXCEPT !.bids = trim_trailing_passes(@)]
    /\ pc' = "trimmed"
    /\ UNCHANGED <<stage1Vars, expandVars, stage3Vars, mergeVars, gsc_out, lesson_boards, rotate, lesson_pbn>>

\* commentary = generate_south_commentary(bids, notes, board_num, commentary)
GenerateSouthCommentary ==
    /\ pc = "trimmed"
    /\ gsc_out' = generate_south_commentary(gsc_in.bids, gsc_in.notes,
                                            gsc_in.board_num, gsc_in.commentary)
    /\ pc' = "commentary"
    /\ UNCHANGED <<stage1Vars, expandVars, stage3Vars, mergeVars, gsc_in, lesson_boards, rotate, lesson_pbn>>

NextCommentary == ParseAuctionBids \/ TrimTrailingPasses \/ GenerateSouthCommentary

SpecCommentary == InitCommentary /\ [][NextCommentary]_vars

(***************************************************************************)
(* Claims about the commentary.                                            *)
(***************************************************************************)
\* The lines of the commentary returned, as strings
ResultLines == LET rl == SplitChar(gsc_out, "\n") IN [k \in 1..Len(rl) |-> Str(rl[k])]

\* The positions of the lines of the commentary that open as a prompt does
PromptPositions ==
    LET rl == SplitChar(gsc_out, "\n") IN
    {k \in 1..Len(rl) : StartsWith(rl[k], <<"W","h","a","t"," ","w","i","l","l"," ","y","o","u"," ","b","i","d"," ","n","o","w","?">>)}

\* The j-th of a set of positions, in increasing order
NthOf(positions, j) ==
    CHOOSE p \in positions : Cardinality({q \in positions : q < p}) = j - 1

IsSouth(triple) == triple.seat = "S"

\* The second-person line of a South triple
YouLine(triple, notes) ==
    LET d == Str(format_bid_display(triple.bid)) IN
    (IF Upper(triple.bid) = UpperPass THEN "You pass"
     ELSE IF triple.bid = <<"X">> THEN "You double"
     ELSE IF triple.bid = <<"X","X">> THEN "You redouble"
     ELSE "You bid " \o d)
    \o Str(format_meaning(NotesGet(notes, triple.note_num))) \o "."

LinesFrom(lines, k) == SelectSeq(lines, LAMBDA l : l.src = k)

\* How many lines of result read text
CountLines(result, text) == Cardinality({k \in 1..Len(result) : result[k] = text})

\* How many triples of bids have the seat and the bid
CountBids(bids, seat, bid) ==
    Cardinality({k \in 1..Len(bids) : bids[k].seat = seat /\ bids[k].bid = bid})

\* C10: an East or West Pass without a footnote adds no line to the
\* commentary; an East or West X or XX adds exactly one line, '<Name>
\* doubles.' or '<Name> redoubles.', with or without a footnote, and the
\* commentary returned has one such line for each such call.
C10_OpponentNarration ==
    pc = "commentary" =>
        LET bids == gsc_in.bids
            lines == CommentaryLoop(bids, gsc_in.notes, 1, <<>>)
            result == ResultLines
        IN  /\ gsc_out = CommentaryBlock([j \in 1..Len(lines) |-> lines[j].text],
                                         gsc_in.board_num, gsc_in.commentary)
            /\ \A k \in 1..Len(bids) :
                  LET t == bids[k]
                      name == IF t.seat = "E" THEN "East" ELSE "West"
                      mine == LinesFrom(lines, k)
                  IN  t.seat \in {"E", "W"} =>
                        /\ t.bid = <<"P","a","s","s">> /\ t.note_num = NoneNum => mine = <<>>
                        /\ t.bid = <<"X">> =>
                              Len(mine) = 1 /\ Str(mine[1].text) = name \o " doubles."
                        /\ t.bid = <<"X","X">> =>
                              Len(mine) = 1 /\ Str(mine[1].text) = name \o " redoubles."
            /\ CountLines(result, "East doubles.") = CountBids(bids, "E", <<"X">>)
            /\ CountLines(result, "West doubles.") = CountBids(bids, "W", <<"X">>)
            /\ CountLines(result, "East redoubles.") = CountBids(bids, "E", <<"X","X">>)
            /\ CountLines(result, "West redoubles.") = CountBids(bids, "W", <<"X","X">>)

\* An opponent's Pass without a footnote in mid-auction, and an opponent's
\* double whose footnote is in the lookup
C10_Witness ==
    /\ pc = "commentary"
    /\ \E k \in 1..Len(gsc_in.bids) :
          /\ gsc_in.bids[k].seat \in {"E", "W"}
          /\ gsc_in.bids[k].bid = <<"P","a","s","s">>
          /\ gsc_in.bids[k].note_num = NoneNum
    /\ \E k \in 1..Len(gsc_in.bids) :
          /\ gsc_in.bids[k].seat \in {"E", "W"}
          /\ gsc_in.bids[k].bid = <<"X">>
          /\ NotesGet(gsc_in.notes, gsc_in.bids[k].note_num) # <<>>
    /\ LET result == ResultLines IN
       CountLines(result, "East doubles.") + CountLines(result, "West doubles.") = 1

(***************************************************************************)
(* Claims about the splitting step of expand_auction.                      *)
(***************************************************************************)
\* The top-level parenthesised groups of a, parentheses included, in order
Annotations(a) ==
    LET d == Depths(a)
        opens == TopOpens(a)
    IN  [n \in 1..Len(opens) |-> Slice(a, opens[n], CloseOf(a, d, opens[n]))]

\* No separator of either spelling stands at depth 0 in the element e
NoTopSeparator(e) ==
    LET d == Depths(e) IN
    \A p \in 1..Len(e) :
        d[p] = 0 => ~StartsWithAt(e, p, Hyphen3) /\ ~StartsWithAt(e, p, EnDash3)

\* The elements are the pieces of the raw auction between its separators at
\* depth 0: put back together with separators they give the raw auction
\* (an empty last piece is not kept), and none holds a separator at depth 0.
SplitsAtDepthZero ==
    LET elements == SplitElements(raw_auction)
        whole == Join(elements, Hyphen3)
    IN  /\ Normalized(raw_auction) \in {whole, whole \o Hyphen3}
        /\ \A k \in 1..Len(elements) : Balanced(elements[k]) /\ NoTopSeparator(elements[k])

\* The annotations of the expansion are those of the raw auction
AnnotationsKept == Annotations(expanded) = Annotations(raw_auction)

\* C11: for a raw auction with balanced parentheses the split is made at the
\* separators at depth 0 and at no other place, '1C (shows 4+ - or more C) -
\* Pass' splits into '1C (shows 4+ - or more C)' and 'Pass', and every
\* annotation is carried through the expansion unchanged.
C11_SplitKeepsAnnotations ==
    pc # "raw" /\ Balanced(raw_auction) =>
        /\ SplitsAtDepthZero
        /\ raw_auction = SplitExample =>
              SplitElements(raw_auction) = <<<<"1","C"," ","(","s","h","o","w","s"," ","4","+"," ","-"," ","o","r"," ","m","o","r","e"," ","C",")">>, <<"P","a","s","s">>>>
        /\ AnnotationsKept

\* The part of C11 about the split alone
SplitOutsideParens ==
    pc # "raw" /\ Balanced(raw_auction) =>
        /\ SplitsAtDepthZero
        /\ raw_auction = SplitExample =>
              SplitElements(raw_auction) = <<<<"1","C"," ","(","s","h","o","w","s"," ","4","+"," ","-"," ","o","r"," ","m","o","r","e"," ","C",")">>, <<"P","a","s","s">>>>
        /\ ~Contains(raw_auction, EnDash3) => AnnotationsKept

(***************************************************************************)
(* generate_lesson.py: write_lesson_pbn, and main, which writes the three  *)
(* variants of the lesson from the same boards.                            *)
(***************************************************************************)
ROTATE_MAP == [seat \in {"N", "S", "E", "W"} |->
                  CASE seat = "N" -> "S" [] seat = "S" -> "N"
                    [] seat = "E" -> "W" [] seat = "W" -> "E"]

\* rotate_seat(seat): ROTATE_MAP[seat], a KeyError for any other text
SeatKnown(seat) == Len(seat) = 1 /\ seat[1] \in DOMAIN ROTATE_MAP
rotate_seat(seat) == <<ROTATE_MAP[seat[1]]>>

\* rotate_deal_tag(deal_value): the prefix swapped, the rest kept
rotate_deal_tag(deal_value) == rotate_seat(<<deal_value[1]>>) \o Tail(deal_value)

\* get_tag(tags, name): the value of the first tag of that name, else ''
get_tag(tags, name) ==
    IF \E k \in 1..Len(tags) : tags[k][1] = name
    THEN tags[CHOOSE k \in 1..Len(tags) :
                 tags[k][1] = name /\ \A j \in 1..(k - 1) : tags[j][1] # name][2]
    ELSE <<>>

\* do_rotate, for the board at the 0-based index board_idx
DoRotate(rotate_, board_idx) ==
    rotate_ = "all" \/ (rotate_ = "alternate" /\ board_idx % 2 = 1)

\* The value written for one metadata tag
WrittenValue(tag, value, event_name, do_rotate) ==
    IF tag = <<"E","v","e","n","t">> THEN event_name
    ELSE IF tag = <<"D","e","a","l">> /\ do_rotate THEN rotate_deal_tag(value)
    ELSE value

\* The rotation of this board raises: a Deal tag that is empty or does not
\* open with a seat, or an auction dealer that is no seat
RotationRaises(board) ==
    \/ ~SeatKnown(board.auction_dealer)
    \/ \E k \in 1..Len(board.meta_tags) :
          /\ board.meta_tags[k][1] = <<"D","e","a","l">>
          /\ \/ board.meta_tags[k][2] = <<>>
             \/ ~SeatKnown(<<board.meta_tags[k][2][1]>>)

\* What the body of the loop of write_lesson_pbn writes for one board
LessonBoardText(board, board_idx, event_name, skill_path, rotate_) ==
    LET board_num == get_tag(board.meta_tags, <<"B","o","a","r","d">>)
        do_rotate == DoRotate(rotate_, board_idx)
        dealer == IF do_rotate THEN rotate_seat(board.auction_dealer)
                  ELSE board.auction_dealer
        bids == trim_trailing_passes(parse_auction_bids(board.auction_lines, dealer).bids)
        commentary == generate_south_commentary(bids, board.notes, board_num, board.commentary)
        Lines(ls) == Join([k \in 1..Len(ls) |-> ls[k] \o <<"\n">>], <<>>)
    IN  Join([k \in 1..Len(board.meta_tags) |->
                 TagLine(board.meta_tags[k][1],
                         WrittenValue(board.meta_tags[k][1], board.meta_tags[k][2],
                                      event_name, do_rotate))], <<>>)
        \o TagLine(<<"A","u","c","t","i","o","n">>, dealer)
        \o Lines(board.auction_lines)
        \o Lines(board.note_lines)
        \o TagLine(<<"S","t","u","d","e","n","t">>, <<"S">>)
        \o TagLine(<<"B","C","F","l","a","g","s">>, <<"1","f">>)
        \o TagLine(<<"C","a","t","e","g","o","r","y">>, <<"P","r","e","c","i","s","i","o","n">>)
        \o TagLine(<<"D","i","f","f","i","c","u","l","t","y">>, <<"i","n","t","e","r","m","e","d","i","a","t","e">>)
        \o TagLine(<<"S","k","i","l","l","P","a","t","h">>, skill_path)
        \o commentary \o <<"\n">>
        \o <<"\n">>

\* write_lesson_pbn: the text of the file written, and whether the call
\* raised instead
write_lesson_pbn(boards_, event_name, skill_path, rotate_) ==
    LET raised == \E k \in 1..Len(boards_) :
                     \/ ~SeatKnown(boards_[k].auction_dealer)
                     \/ DoRotate(rotate_, k - 1) /\ RotationRaises(boards_[k])
    IN  [raised |-> raised,
         text |-> IF raised THEN <<>>
                  ELSE PbnHeader
                       \o Join([k \in 1..Len(boards_) |->
                                   LessonBoardText(boards_[k], k - 1, event_name,
                                                   skill_path, rotate_)], <<>>)]

\* The largest number of boards of a generated source document
MaxLessonBoards == 2

\* A board as parse_boards returns it, with the dealer and the first seat of
\* the Deal tag as given
SourceBoard(dealer, first, num) ==
    [meta_tags |-> <<<<<<"E","v","e","n","t">>, <<"E","v">>>>, <<<<"B","o","a","r","d">>, num>>, <<<<"D","e","a","l","e","r">>, <<dealer>>>>,
                     <<<<"V","u","l","n","e","r","a","b","l","e">>, <<"N","S">>>>, <<<<"D","e","a","l">>, <<first>> \o <<":","A","K",".","Q",".","J",".","T">>>>>>,
     auction_dealer |-> <<dealer>>,
     auction_lines |-> <<<<"1","C"," ","P","a","s","s"," ","1","D"," ","=","1","="," ","X">>, <<"P","a","s","s"," ","P","a","s","s"," ","P","a","s","s">>>>,
     notes |-> {<<1, <<"w","a","i","t","i","n","g">>>>},
     note_lines |-> <<<<"[","N","o","t","e"," ","\"","1",":","w","a","i","t","i","n","g","\"","]">>>>,
     commentary |-> <<"{","L","e","a","d"," ","t","h","e"," ","a","c","e",".","}">>]

RECURSIVE SourceBoards(_)
SourceBoards(n) ==
    IF n = 0 THEN {<<>>}
    ELSE LET shorter == SourceBoards(n - 1) IN
         shorter \cup {Append(bs, SourceBoard(d, f, Dec(Len(bs) + 1))) :
                          bs \in shorter, d \in {"N", "E", "S", "W"}, f \in {"N", "E"}}

InitLesson ==
    /\ IdleStage1
    /\ pc = "boards"
    /\ lesson_boards \in SourceBoards(MaxLessonBoards)
    /\ rotate = "none"
    /\ lesson_pbn = <<>>
    /\ gsc_in = NoRow /\ gsc_out = <<>>
    /\ IdleExpand /\ IdleStage3 /\ IdleMerge

\* main: the three calls of write_lesson_pbn, over the boards it parsed
WriteResponder ==
    /\ pc = "boards"
    /\ LET w == write_lesson_pbn(lesson_boards, <<"P","r","e","c","i","s","i","o","n"," ","1","C"," ","-"," ","R","e","s","p","o","n","d","e","r">>,
                                 <<"p","r","e","c","i","s","i","o","n","/","1","c","_","r","e","s","p","o","n","d","e","r">>, "none") IN
       /\ pc' = IF w.raised THEN "raised" ELSE "responder"
       /\ lesson_pbn' = w.text
    /\ rotate' = "none"
    /\ UNCHANGED <<stage1Vars, expandVars, stage3Vars, mergeVars, gsc_in, gsc_out, lesson_boards>>

WriteOpener ==
    /\ pc = "responder"
    /\ LET w == write_lesson_pbn(lesson_boards, <<"P","r","e","c","i","s","i","o","n"," ","1","C"," ","-"," ","O","p","e","n","e","r">>,
                                 <<"p","r","e","c","i","s","i","o","n","/","1","c","_","o","p","e","n","e","r">>, "all") IN
       /\ pc' = IF w.raised THEN "raised" ELSE "opener"
       /\ lesson_pbn' = w.text
    /\ rotate' = "all"
    /\ UNCHANGED <<stage1Vars, expandVars, stage3Vars, mergeVars, gsc_in, gsc_out, lesson_boards>>

WriteMixed ==
    /\ pc = "opener"
    /\ LET w == write_lesson_pbn(lesson_boards, <<"P","r","e","c","i","s","i","o","n"," ","1","C"," ","-"," ","M","i","x","e","d">>,
                                 <<"p","r","e","c","i","s","i","o","n","/","1","c","_","m","i","x","e","d">>, "alternate") IN
       /\ pc' = IF w.raised THEN "raised" ELSE "mixed"
       /\ lesson_pbn' = w.text
    /\ rotate' = "alternate"
    /\ UNCHANGED <<stage1Vars, expandVars, stage3Vars, mergeVars, gsc_in, gsc_out, lesson_boards>>

NextLesson == WriteResponder \/ WriteOpener \/ WriteMixed

SpecLesson == InitLesson /\ [][NextLesson]_vars

(***************************************************************************)
(* Claims about the rotation of the lesson boards.                         *)
(***************************************************************************)
Written == pc \in {"responder", "opener", "mixed"}

\* The first seat letter of a Deal tag
FirstSeat(deal_value) == Slice(deal_value, 1, 1)

\* The N<->S / E<->W swap of a seat
Swapped(seat) ==
    IF seat = <<"N">> THEN <<"S">> ELSE IF seat = <<"S">> THEN <<"N">>
    ELSE IF seat = <<"E">> THEN <<"W">> ELSE IF seat = <<"W">> THEN <<"E">> ELSE seat

\* What a value of a rotated or a copied board is expected to be
Expected(seat, rotated) == IF rotated THEN Swapped(seat) ELSE seat

\* C12: every board of the source is written; for a board that is rotated
\* (every board under 'all', the odd 0-indexed boards under 'alternate') the
\* written Dealer tag, the first seat letter of the written Deal tag and the
\* written Auction dealer are the swaps of the source's, and for a board
\* that is not rotated all three are the source's.
C12_UniformRotation ==
    Written =>
        LET out == parse_boards(lesson_pbn).boards IN
        /\ Len(out) = Len(lesson_boards)
        /\ \A k \in 1..Len(lesson_boards) :
              LET src == lesson_boards[k]
                  rotated == rotate = "all" \/ (rotate = "alternate" /\ (k - 1) % 2 = 1)
              IN  /\ get_tag(out[k].meta_tags, <<"D","e","a","l","e","r">>)
                        = Expected(get_tag(src.meta_tags, <<"D","e","a","l","e","r">>), rotated)
                  /\ FirstSeat(get_tag(out[k].meta_tags, <<"D","e","a","l">>))
                        = Expected(FirstSeat(get_tag(src.meta_tags, <<"D","e","a","l">>)), rotated)
                  /\ out[k].auction_dealer = Expected(src.auction_dealer, rotated)

\* The part of C12 that holds: the Deal tag and the Auction dealer are
\* swapped on the rotated boards and copied on the others, and the Dealer
\* tag is copied on every board
RotationOfDealAndAuction ==
    Written =>
        LET out == parse_boards(lesson_pbn).boards IN
        /\ Len(out) = Len(lesson_boards)
        /\ \A k \in 1..Len(lesson_boards) :
              LET src == lesson_boards[k]
                  rotated == rotate = "all" \/ (rotate = "alternate" /\ (k - 1) % 2 = 1)
              IN  /\ get_tag(out[k].meta_tags, <<"D","e","a","l","e","r">>) = get_tag(src.meta_tags, <<"D","e","a","l","e","r">>)
                  /\ FirstSeat(get_tag(out[k].meta_tags, <<"D","e","a","l">>))
                        = Expected(FirstSeat(get_tag(src.meta_tags, <<"D","e","a","l">>)), rotated)
                  /\ out[k].auction_dealer = Expected(src.auction_dealer, rotated)
                  /\ out[k].auction_lines = src.auction_lines
                  /\ out[k].note_lines = src.note_lines

(***************************************************************************)
(* Claims about the footnote phrase of the narration.                      *)
(***************************************************************************)
\* The footnote number of the triple is in the lookup
HasFootnote(triple, notes) == \E nt \in notes : nt[1] = triple.note_num

\* The triple is narrated: a call of North, or a call of East or West that
\* is not a pass
Narrated(triple) ==
    \/ triple.seat = "N"
    \/ triple.seat \in {"E", "W"} /\ Upper(triple.bid) # UpperPass

\* The footnote text of the triple in the lookup
FootnoteText(triple, notes) == (CHOOSE nt \in notes : nt[1] = triple.note_num)[2]

\* The one line of the triple k is a line of the commentary returned and
\* ends with the phrase of its footnote and '.'
PhraseAppended(k) ==
    LET bids == gsc_in.bids
        lines == CommentaryLoop(bids, gsc_in.notes, 1, <<>>)
        mine == LinesFrom(lines, k)
        phrase == format_meaning(FootnoteText(bids[k], gsc_in.notes))
    IN  /\ Len(mine) = 1
        /\ EndsWith(mine[1].text, phrase \o <<".">>)
        /\ CountLines(ResultLines, Str(mine[1].text)) >= 1

\* C13: every narrated call of North, East or West whose footnote number is
\* in the lookup has the phrase format_meaning gives for the footnote text
\* at the end of its narration line, before the final '.'.
C13_FootnotePhraseAllSeats ==
    pc = "commentary" =>
        \A k \in 1..Len(gsc_in.bids) :
            Narrated(gsc_in.bids[k]) /\ HasFootnote(gsc_in.bids[k], gsc_in.notes)
                => PhraseAppended(k)

\* The part of C13 that holds: the phrase is appended to the calls of
\* North, and never to a call of East or West
FootnotePhraseNorthOnly ==
    pc = "commentary" =>
        \A k \in 1..Len(gsc_in.bids) :
            Narrated(gsc_in.bids[k]) /\ HasFootnote(gsc_in.bids[k], gsc_in.notes)
                => (PhraseAppended(k) <=> gsc_in.bids[k].seat = "N")

(***************************************************************************)
(* parse_auction_bids alone, over auction lines of every kind of token.    *)
(***************************************************************************)
\* The largest number of tokens of a generated auction body
MaxTokens == 4

\* Bids, a footnote marker, the word of an alternative branch, informal text
TokenVocab == {<<"1","D">>, <<"P","?">>, <<"X">>, <<"=","1","=">>, <<"o","r">>, <<"r","e","l","a","y">>}

RECURSIVE TokenSeqs(_)
TokenSeqs(n) ==
    IF n = 0 THEN {<<>>}
    ELSE LET shorter == TokenSeqs(n - 1) IN
         shorter \cup {Append(ts, t) : ts \in shorter, t \in TokenVocab}

\* The tokens laid out on auction lines, two to the first line
LinesOfTokens(ts) ==
    IF Len(ts) <= 2 THEN <<Join(ts, <<" ">>)>>
    ELSE <<Join(SubSeq(ts, 1, 2), <<" ">>), Join(SubSeq(ts, 3, Len(ts)), <<" ">>)>>

InitParseBids ==
    /\ IdleStage1
    /\ pc = "board"
    /\ gsc_in \in {[auction_lines |-> LinesOfTokens(ts), dealer |-> <<d>>, notes |-> {},
                    board_num |-> <<"1">>, commentary |-> <<>>, bids |-> <<>>] :
                      ts \in TokenSeqs(MaxTokens), d \in {"N", "E", "S", "W"}}
    /\ gsc_out = <<>>
    /\ IdleExpand /\ IdleStage3 /\ IdleMerge /\ IdleWrite

SpecParseBids == InitParseBids /\ [][ParseAuctionBids]_vars

(***************************************************************************)
(* Claims about parse_auction_bids.                                        *)
(***************************************************************************)
\* The tokens of the auction lines read
AuctionTokens == WordsOf(Join(gsc_in.auction_lines, <<" ">>))

\* A footnote marker: digits between two '='
IsMarker(token) ==
    /\ Len(token) >= 3
    /\ token[1] = "=" /\ token[Len(token)] = "="
    /\ \A p \in 2..(Len(token) - 1) : token[p] \in Digits

\* The token stops the parse: the word 'or', or a token that is neither a
\* recognized bid nor a footnote marker
Stops(token) ==
    \/ token = <<"o","r">>
    \/ ~is_valid_bid_token(token) /\ ~IsMarker(token)

\* The position of the first token that stops the parse, one past the last
\* token when none does
StopPoint(tokens) ==
    IF \E i \in 1..Len(tokens) : Stops(tokens[i])
    THEN CHOOSE i \in 1..Len(tokens) :
            Stops(tokens[i]) /\ \A j \in 1..(i - 1) : ~Stops(tokens[j])
    ELSE Len(tokens) + 1

\* The positions of the bids before the stopping point
BidPositions(tokens) == {i \in 1..(StopPoint(tokens) - 1) : ~IsMarker(tokens[i])}

\* The number a marker holds
MarkerNumber(token) == ToNat(SubSeq(token, 2, Len(token) - 1))

\* The bid of a token: its text without the trailing '?', P spelled out
BidOf(token) ==
    LET t == RStripOf(token, {"?"}) IN IF t \in {<<"P">>, <<"p">>} THEN <<"P","a","s","s">> ELSE t

\* The triple of the k-th bid (k from 0) of the tokens
ExpectedTriple(tokens, dealer, k) ==
    LET p == NthOf(BidPositions(tokens), k + 1)
        first == CHOOSE n \in 0..3 : seats[n + 1] = dealer[1]
    IN  [seat |-> seats[((first + k) % 4) + 1],
         bid |-> BidOf(tokens[p]),
         note_num |-> IF p + 1 <= Len(tokens) /\ IsMarker(tokens[p + 1])
                      THEN MarkerNumber(tokens[p + 1]) ELSE NoneNum]

\* C14: the triples returned are those of the bids before the stopping
\* point, in order: the k-th has the seat k places after the dealer in the
\* order N, E, S, W, markers take no seat, a marker right after a bid is
\* that bid's footnote, and no token at or after the stopping point gives a
\* triple.
C14_SeatLabelledPrefix ==
    pc = "bids" =>
        LET tokens == AuctionTokens
            positions == BidPositions(tokens)
        IN  /\ Len(gsc_in.bids) = Cardinality(positions)
            /\ \A k \in 0..(Len(gsc_in.bids) - 1) :
                  gsc_in.bids[k + 1] = ExpectedTriple(tokens, gsc_in.dealer, k)

\* A bid with its marker, then a stopping token, then a bid that gives no triple
C14_Witness ==
    /\ pc = "bids"
    /\ LET tokens == AuctionTokens IN
       /\ Len(tokens) = 4
       /\ StopPoint(tokens) = 3
       /\ is_valid_bid_token(tokens[1]) /\ IsMarker(tokens[2])
       /\ is_valid_bid_token(tokens[4])
    /\ Len(gsc_in.bids) = 1
    /\ gsc_in.bids[1].note_num = 1

(***************************************************************************)
(* generate_pbn.py: stage1, read line by line.                             *)
(***************************************************************************)
\* re.match(r'^(\d+)\)\s+(.*)', stripped): [matched, num, auction]
DealMatch(stripped) ==
    LET d == RunLen(stripped, 1, Digits)
        sp == RunLen(stripped, d + 2, Whitespace)
    IN  IF d >= 1 /\ CharAt(stripped, d + 1) = ")" /\ sp >= 1
        THEN [matched |-> TRUE, num |-> ToNat(Slice(stripped, 1, d)),
              auction |-> Strip(Slice(stripped, d + 2 + sp, Len(stripped)))]
        ELSE [matched |-> FALSE, num |-> 0, auction |-> <<>>]

\* "if deal_num > 40"
LastDeal == 40

\* The variables of the loop before its first line; broke records that the
\* loop was left by a break
Stage1Start ==
    [deal_blocks |-> <<>>, current_block |-> NoRow, consecutive_blanks |-> 0,
     broke |-> FALSE]

\* "deal_blocks.append(current_block)" when there is a current block
WithCurrent(st) ==
    IF st.current_block # NoRow THEN Append(st.deal_blocks, st.current_block)
    ELSE st.deal_blocks

\* "if current_block is None and deal_blocks": the section has already ended
AlreadyEnded_Never(st) == FALSE
AlreadyEnded(st) == st.current_block = NoRow /\ st.deal_blocks # <<>>

\* The body of the loop for one line
ReadLine(st, line) ==
    LET stripped == Strip(line)
        dm == DealMatch(stripped)
    IN  IF stripped = <<>> THEN
            LET blanks == st.consecutive_blanks + 1 IN
            IF blanks >= 2 /\ st.current_block # NoRow
            THEN [st EXCEPT !.consecutive_blanks = blanks,
                            !.deal_blocks = Append(@, st.current_block),
                            !.current_block = NoRow]
            ELSE [st EXCEPT !.consecutive_blanks = blanks]
        ELSE IF AlreadyEnded(st) THEN
            [st EXCEPT !.consecutive_blanks = 0, !.broke = TRUE]
        ELSE IF dm.matched THEN
            IF dm.num > LastDeal
            THEN [st EXCEPT !.consecutive_blanks = 0, !.broke = TRUE]
            ELSE [st EXCEPT !.consecutive_blanks = 0,
                            !.deal_blocks = WithCurrent(st),
                            !.current_block = [num |-> dm.num, auction |-> dm.auction,
                                               extra_lines |-> <<>>]]
        ELSE IF st.current_block # NoRow THEN
            [st EXCEPT !.consecutive_blanks = 0,
                       !.current_block.extra_lines = Append(@, stripped)]
        ELSE [st EXCEPT !.consecutive_blanks = 0]

\* "Don't forget the last block"
LastBlock(st) ==
    IF st.current_block # NoRow /\ st.current_block.num <= LastDeal
    THEN Append(st.deal_blocks, st.current_block)
    ELSE st.deal_blocks

AltLabels == {<<"a","l","t","e","r","n","a","t","i","v","e">>, <<"w","i","t","h","o","u","t"," ","i","n","t","e","r","f","e","r","e","n","c","e">>, <<"n","o"," ","i","n","t","e","r","f","e","r","e","n","c","e">>}

\* re.match(r'^(Alternative|Without interference|No interference):\s*(1C\b.*)',
\*          extra, re.IGNORECASE): [matched, label, auction]
AltMatch(extra) ==
    LET fits(l) == /\ Len(extra) >= Len(l) + 1
                   /\ Lower(SubSeq(extra, 1, Len(l))) = l
                   /\ extra[Len(l) + 1] = ":"
                   /\ LET at == Len(l) + 2 + RunLen(extra, Len(l) + 2, Whitespace) IN
                      /\ CharAt(extra, at) = "1"
                      /\ CharAt(extra, at + 1) \in {"C", "c"}
                      /\ ~IsWordChar(CharAt(extra, at + 2))
    IN  IF \E l \in AltLabels : fits(l)
        THEN LET l == CHOOSE l \in AltLabels : fits(l)
                 at == Len(l) + 2 + RunLen(extra, Len(l) + 2, Whitespace)
             IN  [matched |-> TRUE, label |-> Strip(SubSeq(extra, 1, Len(l))),
                  auction |-> Strip(Slice(extra, at, Len(extra)))]
        ELSE [matched |-> FALSE, label |-> <<>>, auction |-> <<>>]

\* re.match(r'^\*?Note:\s*(.*)', extra): [matched, text]
NoteLineMatch(extra) ==
    LET star == IF CharAt(extra, 1) = "*" THEN 1 ELSE 0 IN
    IF StartsWithAt(extra, star + 1, <<"N","o","t","e",":">>)
    THEN [matched |-> TRUE, text |-> Strip(Slice(extra, star + 6, Len(extra)))]
    ELSE [matched |-> FALSE, text |-> <<>>]

\* The notes and the alternates of a block, from its extra lines
RECURSIVE ScanExtras(_, _, _, _)
ScanExtras(extra_lines, k, notes, alternates) ==
    IF k > Len(extra_lines) THEN [notes |-> notes, alternates |-> alternates]
    ELSE LET extra == extra_lines[k]
             am == AltMatch(extra)
             nm == NoteLineMatch(extra)
         IN  IF am.matched
             THEN ScanExtras(extra_lines, k + 1, notes,
                             Append(alternates, <<am.label, am.auction>>))
             ELSE IF nm.matched
             THEN ScanExtras(extra_lines, k + 1, Append(notes, nm.text), alternates)
             ELSE ScanExtras(extra_lines, k + 1, Append(notes, extra), alternates)

\* The rows of one block: its own, then one for each alternate
RowsOfBlock(block) ==
    LET scan == ScanExtras(block.extra_lines, 1, <<>>, <<>>)
        deal_num == Dec(block.num)
    IN  <<[deal |-> deal_num, auction |-> block.auction,
           notes |-> Strip(Join(scan.notes, <<" ">>))]>>
        \o [i \in 1..Len(scan.alternates) |->
               [deal |-> deal_num \o <<"-">> \o Dec(i),
                auction |-> scan.alternates[i][2],
                notes |-> scan.alternates[i][1]]]

\* "Process each block into CSV rows"
RECURSIVE RowsOfBlocks(_)
RowsOfBlocks(blocks) ==
    IF blocks = <<>> THEN <<>>
    ELSE RowsOfBlock(Head(blocks)) \o RowsOfBlocks(Tail(blocks))

\* The loop over all of lines, from the state st and the line k on
RECURSIVE ReadLines(_, _, _)
ReadLines(st, lines, k) ==
    IF k > Len(lines) \/ st.broke THEN st
    ELSE ReadLines(ReadLine(st, lines[k]), lines, k + 1)

\* stage1: the rows written for the lines of the text file
stage1(lines) == RowsOfBlocks(LastBlock(ReadLines(Stage1Start, lines, 1)))

\* The largest number of lines of a generated text file
MaxLines == 4

LineVocab ==
    {<<" "," ">>, <<"1",")"," ","1","C"," ","-"," ","P">>, <<"4","0",")"," ","P">>, <<"4","1",")"," ","1","C">>, <<"*","N","o","t","e",":"," ","x">>, <<"A","l","t","e","r","n","a","t","i","v","e",":"," ","1","C"," ","-"," ","1","D">>}

RECURSIVE TextFiles(_)
TextFiles(n) ==
    IF n = 0 THEN {<<>>}
    ELSE LET shorter == TextFiles(n - 1) IN
         shorter \cup {Append(ls, l \o <<"\n">>) : ls \in shorter, l \in LineVocab}

InitStage1 ==
    /\ pc = "reading"
    /\ s1_lines \in TextFiles(MaxLines)
    /\ s1_i = 1
    /\ s1_loop = Stage1Start
    /\ s1_rows = <<>>
    /\ IdleExpand /\ IdleStage3 /\ IdleMerge /\ IdleLesson

\* One iteration of the loop over the lines
Stage1Line ==
    /\ pc = "reading"
    /\ s1_i <= Len(s1_lines)
    /\ s1_loop' = ReadLine(s1_loop, s1_lines[s1_i])
    /\ s1_i' = IF s1_loop'.broke THEN s1_i ELSE s1_i + 1
    /\ pc' = IF s1_loop'.broke \/ s1_i' > Len(s1_lines) THEN "collected" ELSE "reading"
    /\ UNCHANGED <<s1_lines, s1_rows, expandVars, stage3Vars, mergeVars, lessonVars>>

\* After the loop: the last block is kept and the rows are written
Stage1Finish ==
    /\ pc = "collected" \/ (pc = "reading" /\ s1_i > Len(s1_lines))
    /\ s1_loop' = [s1_loop EXCEPT !.deal_blocks = LastBlock(s1_loop)]
    /\ s1_rows' = RowsOfBlocks(s1_loop'.deal_blocks)
    /\ pc' = "done"
    /\ UNCHANGED <<s1_lines, s1_i, expandVars, stage3Vars, mergeVars, lessonVars>>

NextStage1 == Stage1Line \/ Stage1Finish

SpecStage1 == InitStage1 /\ [][NextStage1]_vars

(***************************************************************************)
(* Claims about the end of stage 1's parsing.                              *)
(***************************************************************************)
\* The blocks opened so far, the current one last
OpenedBlocks(st) ==
    IF st.current_block = NoRow THEN st.deal_blocks
    ELSE st.deal_blocks \o <<st.current_block>>

\* A block has been closed by two consecutive blank lines, and only blank
\* lines have been read since
ClosedByBlanks(st) ==
    st.current_block = NoRow /\ st.deal_blocks # <<>> /\ st.consecutive_blanks >= 2

\* The line is a deal line with a number greater than 40
IsOver40(line) ==
    LET dm == DealMatch(Strip(line)) IN dm.matched /\ dm.num > 40

\* The loop is at a point where parsing has stopped
Stopped ==
    /\ pc \in {"reading", "collected"}
    /\ s1_loop.broke \/ ClosedByBlanks(s1_loop)

\* The deal numbers of blocks, in order
NumsOf(blocks) == [k \in 1..Len(blocks) |-> blocks[k].num]

IsPrefixOf(s, t) == Len(s) <= Len(t) /\ s = SubSeq(t, 1, Len(s))

AllBlank(ls) == \A k \in 1..Len(ls) : Strip(ls[k]) = <<>>

\* One step of stage 1, as the claim has it
StopsForGoodStep ==
    LET opened == OpenedBlocks(s1_loop)
        opened_after == OpenedBlocks(s1_loop')
    IN  \* a deal line over 40 ends the loop and opens nothing
        /\ pc = "reading" /\ s1_i <= Len(s1_lines) /\ IsOver40(s1_lines[s1_i]) =>
              pc' = "collected" /\ s1_i' = s1_i /\ opened_after = opened
        \* once stopped, a line that is read adds no block and no text
        /\ Stopped /\ pc' # "done" =>
              /\ opened_after = opened
              /\ pc' = "reading" => ClosedByBlanks(s1_loop')
              /\ AllBlank(SubSeq(s1_lines, s1_i, s1_i' - 1))
        \* no block opened is ever dropped
        /\ pc' # "done" => IsPrefixOf(NumsOf(opened), NumsOf(opened_after))
        \* the rows written are those of the blocks opened, and none has a
        \* base deal number over 40
        /\ pc' = "done" =>
              /\ s1_rows' = RowsOfBlocks(opened)
              /\ \A k \in 1..Len(opened) :
                    \E r \in 1..Len(s1_rows') :
                        /\ s1_rows'[r].deal = Dec(opened[k].num)
                        /\ s1_rows'[r].auction = opened[k].auction
              /\ \A r \in 1..Len(s1_rows') : ToNat(BaseNum(s1_rows'[r].deal)) <= 40

\* C15: once a block has been closed by two consecutive blank lines, or a
\* deal line with a number over 40 has been read, no later line adds a
\* record, an alternate or note text; every block opened before is still
\* emitted, and no record emitted has a base deal number over 40.
C15_StopsForGood == [][StopsForGoodStep]_vars

\* A block closed by two blank lines, then a deal line that is not read into
\* a block, and the rows of the first block alone
C15_Witness ==
    /\ pc = "done"
    /\ s1_loop.broke
    /\ s1_i <= Len(s1_lines)
    /\ DealMatch(Strip(s1_lines[s1_i])).matched
    /\ ~IsOver40(s1_lines[s1_i])
    /\ Len(s1_rows) = 1

====
